---- MODULE Spec2Model ----
(***************************************************************************)
(* Job controller of one running job: the RunningJobModel, the checkpoint  *)
(* and commit coordination, the background cleanup task and the metadata   *)
(* rows, as implemented in                                                 *)
(*   crates/arroyo-controller/src/job_controller/mod.rs                    *)
(*   crates/arroyo-controller/src/states/running.rs                        *)
(***************************************************************************)
EXTENDS Integers, Sequences, FiniteSets, TLC

\* ------------------------------------------------------------------------
\* Program constants (job_controller/mod.rs:40-42)
CHECKPOINTS_TO_KEEP == 4
CHECKPOINT_ROWS_TO_KEEP == 100
COMPACT_EVERY == 2

\* ------------------------------------------------------------------------
\* Bounds of the model
MaxStarts == 2          \* start_checkpoint calls explored in one behaviour
MaxFaults == 1          \* external calls that fail in one behaviour
MaxFinishStarts == 1    \* start_checkpoint calls in one behaviour of SpecFinish
MaxInitEpoch == 5       \* largest epoch handed to JobController::new
MaxCleanupEpoch == 8    \* largest epoch handed to JobController::new in SpecCleanup
RowsMargin == 2         \* SpecCleanupRows: distance of min_epoch from CHECKPOINT_ROWS_TO_KEEP
MaxRestarts == 2        \* SpecRunning: largest restart count and restart budget
MaxRunningTime == 2     \* SpecRunning: clock units spent in Running

\* checkpoint_interval of the job configuration, in clock units
checkpoint_interval == 1
\* The largest checkpoint_interval of SpecStagger
MaxInterval == 3
\* pipeline.worker_heartbeat_timeout, in clock units
worker_heartbeat_timeout == 1
\* pipeline.compaction.enabled
compaction_enabled == TRUE

\* The logical program: node 1 is a source with one subtask, node 2 has one
\* subtask.  Node 3 is not part of the program (unknown task keys).
Nodes == {1, 2}
Sources == {1}
Tasks == {<<1, 0>>, <<2, 0>>}
UnknownTask == <<3, 0>>
WorkerIds == {1, 2}
UnknownWorker == 9

\* Instants are kept relative to the current time: Instant::now() is 0, an
\* instant t units in the past is -t.  The code only compares the age of an
\* instant with a threshold, so ages beyond the threshold are kept as one
\* value (threshold + 1).
now == 0
OldestCheckpoint == 0 - (checkpoint_interval + 1)
OldestHeartbeat == 0 - (worker_heartbeat_timeout + 1)

NoState == [kind |-> "None"]
NoTask == [status |-> "none"]

VARIABLES
    state,              \* RunningJobModel.state: "Running" | "Stopped"
    checkpoint_state,   \* RunningJobModel.checkpoint_state (NoState = None)
    epoch,              \* RunningJobModel.epoch
    min_epoch,          \* RunningJobModel.min_epoch
    last_checkpoint,    \* RunningJobModel.last_checkpoint (an instant)
    workers,            \* RunningJobModel.workers: id -> WorkerStatus
    tasks,              \* RunningJobModel.tasks: (node, subtask) -> TaskState
    checkpoint_spans,   \* RunningJobModel.checkpoint_spans
    cleanup_task,       \* JobController.cleanup_task (NoTask = None)
    db,                 \* checkpoint rows of the metadata store, by checkpoint id
    checkpoint_reqs,    \* epochs of the CheckpointReq fan-outs sent so far
    job_finished_rx,    \* worker -> number of job_finished() calls received
    reported,           \* checkpoint reports delivered for the checkpoint in flight
    faults,             \* number of external calls that have failed so far
    ctx                 \* JobContext and the locals of Running::next

vars == <<state, checkpoint_state, epoch, min_epoch, last_checkpoint, workers,
          tasks, checkpoint_spans, cleanup_task, db,
          checkpoint_reqs, job_finished_rx, reported, faults, ctx>>

\* The controller together with the stores and peers it acts on, as one value,
\* so that the methods below compose the way the code calls them.  A method
\* returns that value with three more fields: ret, what the call returned,
\* db_ops, the metadata-store writes it made, and commit_calls, the commit()
\* calls that reached a worker.
Ctl ==
    [state |-> state, checkpoint_state |-> checkpoint_state, epoch |-> epoch,
     min_epoch |-> min_epoch, last_checkpoint |-> last_checkpoint,
     workers |-> workers, tasks |-> tasks,
     checkpoint_spans |-> checkpoint_spans, cleanup_task |-> cleanup_task,
     db |-> db, checkpoint_reqs |-> checkpoint_reqs,
     job_finished_rx |-> job_finished_rx, config |-> ctx.controller_config,
     ret |-> "Ok", db_ops |-> <<>>, commit_calls |-> <<>>]

Ok(c) == [c EXCEPT !.ret = "Ok"]
Err(c) == [c EXCEPT !.ret = "Err"]

\* ------------------------------------------------------------------------
\* Spans

HasSpan(spans, event) == \E i \in DOMAIN spans : spans[i].event = event

start_or_get_span(c, event) ==
    IF HasSpan(c.checkpoint_spans, event)
    THEN c
    ELSE [c EXCEPT !.checkpoint_spans =
              Append(@, [event |-> event, finished |-> FALSE])]

finish(c, event) ==
    [c EXCEPT !.checkpoint_spans =
        [i \in DOMAIN @ |->
            IF @[i].event = event THEN [@[i] EXCEPT !.finished = TRUE] ELSE @[i]]]

\* ------------------------------------------------------------------------
\* Coordination states (arroyo_state::CheckpointState / CommittingState)

TasksOf(ops) == {t \in Tasks : t[1] \in ops}

\* CheckpointState::new
NewCheckpointState(id, e) ==
    [kind |-> "Checkpointing", checkpoint_id |-> id, epoch |-> e,
     finished |-> {}, commit_ops |-> {}, events |-> {}]

\* CheckpointState::done: every subtask of every operator reported finished
checkpointing_done(cs) == cs.finished = Tasks

\* CheckpointState::committing_state: the subtasks of the operators that
\* declared commit work still have to acknowledge the commit
committing_state(cs) ==
    [kind |-> "Committing", checkpoint_id |-> cs.checkpoint_id,
     epoch |-> cs.epoch, subtasks_to_commit |-> TasksOf(cs.commit_ops)]

\* CommittingState::done
committing_done(cs) == cs.subtasks_to_commit = {}

\* CommittingState::subtask_committed
subtask_committed(cs, task) ==
    [cs EXCEPT !.subtasks_to_commit = @ \ {task}]

\* CheckpointState::checkpoint_event
checkpoint_event(cs, msg) ==
    [cs EXCEPT !.events = @ \cup {msg.event_type}]

\* CheckpointState::checkpoint_finished
checkpoint_finished_report(cs, msg) ==
    [cs EXCEPT !.finished = @ \cup {msg.task},
               !.commit_ops = IF msg.has_commit THEN @ \cup {msg.task[1]} ELSE @]

\* done with the commit phase never waited for
done_commit_unchecked(cs) ==
    IF cs.kind = "Checkpointing" THEN checkpointing_done(cs) ELSE TRUE

done(cs) ==
    IF cs.kind = "Checkpointing" THEN checkpointing_done(cs) ELSE committing_done(cs)

\* ------------------------------------------------------------------------
\* External calls.  An operation's input names the first external call that
\* fails during it (the code returns at the first `?` that fails) and the
\* workers whose job_finished() call fails (those failures are only logged).

\* The epochs are u32 in the controller and i32 in the store.  The model
\* keeps the two widths one bit apart and scales them to EpochBits and
\* EpochBits - 1 value bits.
EpochBits == 8
I32_MAX == 2 ^ (EpochBits - 1) - 1

\* `x as i32` of a u32: the same bit pattern read as a signed integer
as_i32(x) ==
    LET bits == x % (2 ^ EpochBits)
    IN  IF bits > I32_MAX THEN bits - 2 ^ EpochBits ELSE bits

\* controller_queries::execute_create_checkpoint, called with
\* `self.epoch as i32` and `self.min_epoch as i32`
execute_create_checkpoint(c) ==
    [c EXCEPT !.db = Append(@, [epoch |-> as_i32(c.epoch),
                                min_epoch |-> as_i32(c.min_epoch),
                                state |-> "inprogress", finish_time |-> FALSE]),
              !.db_ops = Append(@, [op |-> "create_checkpoint",
                                    id |-> Len(c.db) + 1, state |-> "inprogress",
                                    finish_time |-> FALSE, spans |-> <<>>])]

\* controller_queries::execute_update_checkpoint
execute_update_checkpoint(c, id, finish_time, db_state) ==
    [c EXCEPT !.db = [i \in DOMAIN @ |->
                        IF i = id
                        THEN [@[i] EXCEPT !.state = db_state,
                                          !.finish_time = finish_time]
                        ELSE @[i]],
              !.db_ops = Append(@, [op |-> "update_checkpoint", id |-> id,
                                    state |-> db_state,
                                    finish_time |-> finish_time,
                                    spans |-> c.checkpoint_spans])]

\* controller_queries::execute_commit_checkpoint
execute_commit_checkpoint(c, id) ==
    [c EXCEPT !.db = [i \in DOMAIN @ |->
                        IF i = id
                        THEN [@[i] EXCEPT !.state = "ready",
                                          !.finish_time = TRUE]
                        ELSE @[i]],
              !.db_ops = Append(@, [op |-> "commit_checkpoint", id |-> id,
                                    state |-> "ready", finish_time |-> TRUE,
                                    spans |-> c.checkpoint_spans])]

\* ------------------------------------------------------------------------
\* RunningJobModel

update_db(c, in) ==
    IF c.checkpoint_state.kind = "Checkpointing"
    THEN IF in.fail = "update_checkpoint"
         THEN Err(c)
         ELSE Ok(execute_update_checkpoint(c, c.checkpoint_state.checkpoint_id,
                                           FALSE, "inprogress"))
    ELSE Ok(c)

\* update_checkpoint_in_db that never sets the finish time
update_checkpoint_in_db_no_finish_time(c, cs, db_checkpoint_state, in) ==
    IF in.fail = "update_checkpoint"
    THEN Err(c)
    ELSE Ok(execute_update_checkpoint(c, cs.checkpoint_id, FALSE,
                                      db_checkpoint_state))

\* update_checkpoint_in_db that persists every checkpoint as ready
update_checkpoint_in_db_always_ready(c, cs, db_checkpoint_state, in) ==
    IF in.fail = "update_checkpoint"
    THEN Err(c)
    ELSE Ok(execute_update_checkpoint(c, cs.checkpoint_id, TRUE, "ready"))

update_checkpoint_in_db(c, cs, db_checkpoint_state, in) ==
    IF in.fail = "update_checkpoint"
    THEN Err(c)
    ELSE Ok(execute_update_checkpoint(c, cs.checkpoint_id,
                                      db_checkpoint_state = "ready",
                                      db_checkpoint_state))

finish_committing(c, checkpoint_id, in) ==
    IF in.fail = "commit_checkpoint"
    THEN Err(c)
    ELSE Ok(execute_commit_checkpoint(c, checkpoint_id))

\* all_tasks_finished with any() in the place of all()
all_tasks_finished_any(c) == \E t \in DOMAIN c.tasks : c.tasks[t] = "Finished"

all_tasks_finished(c) == \A t \in DOMAIN c.tasks : c.tasks[t] = "Finished"

any_finished_sources(c) ==
    \E t \in DOMAIN c.tasks : t[1] \in Sources /\ c.tasks[t] = "Finished"

\* heartbeat_timeout that fires when the age reaches the timeout
heartbeat_timeout_at_limit(w) ==
    now - w.last_heartbeat >= worker_heartbeat_timeout

heartbeat_timeout(w) == now - w.last_heartbeat > worker_heartbeat_timeout

failed(c) ==
    \/ \E w \in DOMAIN c.workers : heartbeat_timeout(c.workers[w])
    \/ \E t \in DOMAIN c.tasks : c.tasks[t] = "Failed"

\* cleanup_needed without the CHECKPOINTS_TO_KEEP threshold
cleanup_needed_no_threshold(c) ==
    IF c.epoch % COMPACT_EVERY = 0
    THEN [some |-> TRUE, value |-> c.epoch - CHECKPOINTS_TO_KEEP]
    ELSE [some |-> FALSE, value |-> 0]

\* cleanup_needed that adds CHECKPOINTS_TO_KEEP to the epoch
cleanup_needed_plus(c) ==
    IF c.epoch - c.min_epoch > CHECKPOINTS_TO_KEEP /\ c.epoch % COMPACT_EVERY = 0
    THEN [some |-> TRUE, value |-> c.epoch + CHECKPOINTS_TO_KEEP]
    ELSE [some |-> FALSE, value |-> 0]

\* cleanup_needed with >= in the place of >
cleanup_needed_ge(c) ==
    IF c.epoch - c.min_epoch >= CHECKPOINTS_TO_KEEP /\ c.epoch % COMPACT_EVERY = 0
    THEN [some |-> TRUE, value |-> c.epoch - CHECKPOINTS_TO_KEEP]
    ELSE [some |-> FALSE, value |-> 0]

cleanup_needed(c) ==
    IF c.epoch - c.min_epoch > CHECKPOINTS_TO_KEEP /\ c.epoch % COMPACT_EVERY = 0
    THEN [some |-> TRUE, value |-> c.epoch - CHECKPOINTS_TO_KEEP]
    ELSE [some |-> FALSE, value |-> 0]

compact_state(c, in) ==
    IF ~compaction_enabled
    THEN Ok(c)
    ELSE LET c1 == start_or_get_span(c, "Compacting")
         IN  IF in.fail = "compact"
             THEN Err(c1)
             ELSE Ok(finish(start_or_get_span(c1, "Compacting"), "Compacting"))

\* start_checkpoint that advances the epoch only once the workers accepted
\* the request
start_checkpoint_epoch_after_rpc(c, in) ==
    LET c1 == [c EXCEPT !.checkpoint_spans = <<>>]
        c2 == start_or_get_span(start_or_get_span(c1, "Checkpointing"),
                                "CheckpointingOperators")
        c3 == [c2 EXCEPT !.checkpoint_reqs = Append(@, c2.epoch + 1)]
    IN  IF in.fail = "checkpoint_rpc"
        THEN Err(c3)
        ELSE LET c4 == [c3 EXCEPT !.epoch = @ + 1]
             IN  IF in.fail = "create_checkpoint"
                 THEN Err(c4)
                 ELSE LET c5 == execute_create_checkpoint(c4)
                      IN  Ok([c5 EXCEPT !.checkpoint_state =
                                 NewCheckpointState(Len(c5.db), c5.epoch)])

\* start_checkpoint that creates the row before it calls the workers
start_checkpoint_row_before_rpc(c, in) ==
    LET c1 == [c EXCEPT !.epoch = @ + 1, !.checkpoint_spans = <<>>]
        c2 == start_or_get_span(start_or_get_span(c1, "Checkpointing"),
                                "CheckpointingOperators")
    IN  IF in.fail = "create_checkpoint"
        THEN Err(c2)
        ELSE LET c3 == execute_create_checkpoint(c2)
                 c4 == [c3 EXCEPT !.checkpoint_reqs = Append(@, c3.epoch)]
             IN  IF in.fail = "checkpoint_rpc"
                 THEN Err(c4)
                 ELSE Ok([c4 EXCEPT !.checkpoint_state =
                            NewCheckpointState(Len(c4.db), c4.epoch)])

start_checkpoint(c, in) ==
    LET c1 == [c EXCEPT !.epoch = @ + 1, !.checkpoint_spans = <<>>]
        c2 == start_or_get_span(start_or_get_span(c1, "Checkpointing"),
                                "CheckpointingOperators")
        c3 == [c2 EXCEPT !.checkpoint_reqs = Append(@, c2.epoch)]
    IN  IF in.fail = "checkpoint_rpc"
        THEN Err(c3)
        ELSE IF in.fail = "create_checkpoint"
        THEN Err(c3)
        ELSE LET c4 == execute_create_checkpoint(c3)
             IN  Ok([c4 EXCEPT !.checkpoint_state =
                        NewCheckpointState(Len(c4.db), c4.epoch)])

\* The order in which the commit fan-out visits the workers
WorkerOrder == <<1, 2>>

\* send_commits that calls the first worker only
send_commits_first_only(c, in) ==
    IF in.fail \in {"commit_rpc", "commit_rpc_second"}
    THEN Err(c)
    ELSE Ok([c EXCEPT !.commit_calls =
                Append(@, [worker |-> WorkerOrder[1], epoch |-> c.epoch])])

\* The commit fan-out of finish_checkpoint_if_done: one commit(epoch,
\* committing_data) call per worker, one after the other, stopping at the
\* first call that fails
send_commits(c, in) ==
    LET failing == CASE in.fail = "commit_rpc" -> 1
                     [] in.fail = "commit_rpc_second" -> 2
                     [] OTHER -> Len(WorkerOrder) + 1
        calls == [i \in 1 .. (failing - 1) |->
                     [worker |-> WorkerOrder[i], epoch |-> c.epoch]]
        c1 == [c EXCEPT !.commit_calls = @ \o calls]
    IN  IF failing <= Len(WorkerOrder) THEN Err(c1) ELSE Ok(c1)

finish_checkpoint_if_done(c, in) ==
    IF ~done(c.checkpoint_state)
    THEN Ok(c)
    ELSE
      LET cs == c.checkpoint_state
          c0 == [c EXCEPT !.checkpoint_state = NoState]
      IN
      IF cs.kind = "Checkpointing"
      THEN
        LET c1 == start_or_get_span(c0, "WritingMetadata")
        IN
        IF in.fail = "write_metadata"
        THEN Err(c1)
        ELSE
          LET c2 == finish(c1, "WritingMetadata")
              cm == committing_state(cs)
          IN
          IF committing_done(cm)
          THEN
            LET c3 == finish(start_or_get_span(c2, "Checkpointing"), "Checkpointing")
                c4 == update_checkpoint_in_db(c3, cs, "ready", in)
            IN  IF c4.ret = "Err"
                THEN c4
                ELSE compact_state([c4 EXCEPT !.last_checkpoint = now,
                                              !.checkpoint_state = NoState], in)
          ELSE
            LET c3 == update_checkpoint_in_db(c2, cs, "committing", in)
            IN  IF c3.ret = "Err"
                THEN c3
                ELSE send_commits(
                         start_or_get_span(
                             [c3 EXCEPT !.checkpoint_state = cm], "Committing"), in)
      ELSE
        LET c1 == finish(start_or_get_span(c0, "Committing"), "Committing")
            c2 == finish(start_or_get_span(c1, "Checkpointing"), "Checkpointing")
            c3 == finish_committing(c2, cs.checkpoint_id, in)
        IN  IF c3.ret = "Err"
            THEN c3
            ELSE Ok([c3 EXCEPT !.last_checkpoint = now,
                               !.checkpoint_state = NoState])

\* One inbound RunningMessage
EventTypes == {"StartedCheckpointing", "FinishedCommit"}

Msg(type, e, task, event_type, has_commit, worker_id, time) ==
    [type |-> type, epoch |-> e, task |-> task, event_type |-> event_type,
     has_commit |-> has_commit, worker_id |-> worker_id, time |-> time]

\* TaskCheckpointEvent that takes every event of the commit phase for a
\* FinishedCommit
handle_checkpoint_event_any_commit(c, msg, in) ==
    LET cs == c.checkpoint_state
    IN  IF cs.kind # "None"
        THEN IF msg.epoch # c.epoch
             THEN Ok(c)
             ELSE
               LET c1 ==
                     IF cs.kind = "Checkpointing"
                     THEN IF in.fail = "coordinator"
                          THEN Err(c)
                          ELSE Ok([c EXCEPT !.checkpoint_state =
                                      checkpoint_event(cs, msg)])
                     ELSE compact_state(
                            [c EXCEPT !.checkpoint_state =
                                subtask_committed(cs, msg.task)], in)
               IN  IF c1.ret = "Err" THEN c1 ELSE update_db(c1, in)
        ELSE Ok(c)

\* RunningMessage::TaskCheckpointEvent
handle_checkpoint_event(c, msg, in) ==
    LET cs == c.checkpoint_state
    IN  IF cs.kind # "None"
        THEN IF msg.epoch # c.epoch
             THEN Ok(c)
             ELSE
               LET c1 ==
                     IF cs.kind = "Checkpointing"
                     THEN IF in.fail = "coordinator"
                          THEN Err(c)
                          ELSE Ok([c EXCEPT !.checkpoint_state =
                                      checkpoint_event(cs, msg)])
                     ELSE IF msg.event_type = "FinishedCommit"
                          THEN compact_state(
                                 [c EXCEPT !.checkpoint_state =
                                     subtask_committed(cs, msg.task)], in)
                          ELSE Ok(c)
               IN  IF c1.ret = "Err" THEN c1 ELSE update_db(c1, in)
        ELSE Ok(c)

\* TaskCheckpointFinished handled without the epoch comparison
handle_checkpoint_finished_any_epoch(c, msg, in) ==
    LET cs == c.checkpoint_state
    IN  IF cs.kind # "None"
        THEN IF cs.kind # "Checkpointing"
             THEN Err(c)
             ELSE IF in.fail = "coordinator"
             THEN Err(c)
             ELSE
               LET c1 == [c EXCEPT !.checkpoint_state =
                             checkpoint_finished_report(cs, msg)]
                   c2 == IF done(c1.checkpoint_state)
                         THEN finish(c1, "CheckpointingOperators")
                         ELSE c1
               IN  update_db(c2, in)
        ELSE Ok(c)

\* TaskCheckpointFinished that rejects the commit phase before it compares
\* the epochs
handle_checkpoint_finished_bail_first(c, msg, in) ==
    LET cs == c.checkpoint_state
    IN  IF cs.kind # "None"
        THEN IF cs.kind # "Checkpointing"
             THEN Err(c)
             ELSE IF msg.epoch # c.epoch
             THEN Ok(c)
             ELSE IF in.fail = "coordinator"
             THEN Err(c)
             ELSE
               LET c1 == [c EXCEPT !.checkpoint_state =
                             checkpoint_finished_report(cs, msg)]
                   c2 == IF done(c1.checkpoint_state)
                         THEN finish(c1, "CheckpointingOperators")
                         ELSE c1
               IN  update_db(c2, in)
        ELSE Ok(c)

\* TaskCheckpointFinished that pushes a closed CheckpointingOperators span
\* when the coordinator is done, instead of closing the one it finds
handle_checkpoint_finished_push_span(c, msg, in) ==
    LET cs == c.checkpoint_state
    IN  IF cs.kind # "None"
        THEN IF msg.epoch # c.epoch
             THEN Ok(c)
             ELSE IF cs.kind # "Checkpointing"
             THEN Err(c)
             ELSE IF in.fail = "coordinator"
             THEN Err(c)
             ELSE
               LET c1 == [c EXCEPT !.checkpoint_state =
                             checkpoint_finished_report(cs, msg)]
                   c2 == IF done(c1.checkpoint_state)
                         THEN [c1 EXCEPT !.checkpoint_spans =
                                 Append(@, [event |-> "CheckpointingOperators",
                                            finished |-> TRUE])]
                         ELSE c1
               IN  update_db(c2, in)
        ELSE Ok(c)

\* RunningMessage::TaskCheckpointFinished
handle_checkpoint_finished(c, msg, in) ==
    LET cs == c.checkpoint_state
    IN  IF cs.kind # "None"
        THEN IF msg.epoch # c.epoch
             THEN Ok(c)
             ELSE IF cs.kind # "Checkpointing"
             THEN Err(c)
             ELSE IF in.fail = "coordinator"
             THEN Err(c)
             ELSE
               LET c1 == [c EXCEPT !.checkpoint_state =
                             checkpoint_finished_report(cs, msg)]
                   c2 == IF done(c1.checkpoint_state)
                         THEN finish(c1, "CheckpointingOperators")
                         ELSE c1
               IN  update_db(c2, in)
        ELSE Ok(c)

\* RunningMessage::TaskFinished
handle_task_finished(c, msg) ==
    IF msg.task \in DOMAIN c.tasks
    THEN Ok([c EXCEPT !.tasks[msg.task] = "Finished"])
    ELSE Ok(c)

\* RunningMessage::TaskFailed
handle_task_failed(c, msg) ==
    IF msg.task \in DOMAIN c.tasks
    THEN Ok([c EXCEPT !.tasks[msg.task] = "Failed"])
    ELSE Ok(c)

\* RunningMessage::WorkerHeartbeat
handle_worker_heartbeat(c, msg) ==
    IF msg.worker_id \in DOMAIN c.workers
    THEN Ok([c EXCEPT !.workers[msg.worker_id].last_heartbeat = msg.time])
    ELSE Ok(c)

\* RunningMessage::WorkerFinished
handle_worker_finished(c, msg) ==
    IF msg.worker_id \in DOMAIN c.workers
    THEN Ok([c EXCEPT !.workers[msg.worker_id].state = "Stopped"])
    ELSE Ok(c)

\* The end of handle_message: tell the workers once the job has finished
send_job_finished(c, in) ==
    IF /\ c.state = "Running"
       /\ all_tasks_finished(c)
       /\ c.checkpoint_state.kind = "None"
    THEN [c EXCEPT !.job_finished_rx =
                       [w \in DOMAIN @ |->
                           IF w \in in.jf_fail THEN @[w] ELSE @[w] + 1],
                   !.state = "Stopped"]
    ELSE c

handle_message(c, msg, in) ==
    LET c1 ==
          CASE msg.type = "TaskCheckpointEvent" -> handle_checkpoint_event(c, msg, in)
            [] msg.type = "TaskCheckpointFinished" ->
                 handle_checkpoint_finished(c, msg, in)
            [] msg.type = "TaskFinished" -> handle_task_finished(c, msg)
            [] msg.type = "TaskFailed" -> handle_task_failed(c, msg)
            [] msg.type = "WorkerHeartbeat" -> handle_worker_heartbeat(c, msg)
            [] msg.type = "WorkerFinished" -> handle_worker_finished(c, msg)
    IN  IF c1.ret = "Err" THEN c1 ELSE send_job_finished(c1, in)

\* ------------------------------------------------------------------------
\* JobController

\* Instant::elapsed (saturates at zero for an instant in the future)
elapsed(instant) == IF now >= instant THEN now - instant ELSE 0

Max(a, b) == IF a >= b THEN a ELSE b

\* u32::checked_sub
checked_sub(a, b) ==
    IF a >= b THEN [some |-> TRUE, value |-> a - b]
              ELSE [some |-> FALSE, value |-> 0]

\* start_cleanup passing min_epoch as it is, without .max(1)
start_cleanup_no_max(c, new_min) ==
    [status |-> "running", min_epoch |-> c.min_epoch,
     new_min |-> new_min, cur_epoch |-> c.epoch,
     drop_rows |-> checked_sub(c.min_epoch, CHECKPOINT_ROWS_TO_KEEP)]

\* The task is spawned with the old minimum, the new one and the current
\* epoch; drop_rows is the execute_drop_old_checkpoint_rows call of its last
\* step (some: the call is made, value: its epoch_to_filter_before)
start_cleanup(c, new_min) ==
    LET old_min == Max(c.min_epoch, 1)
    IN  [status |-> "running", min_epoch |-> old_min,
         new_min |-> new_min, cur_epoch |-> c.epoch,
         drop_rows |-> checked_sub(old_min, CHECKPOINT_ROWS_TO_KEEP)]

\* checkpoint that starts whether or not a coordination state exists
checkpoint_unguarded(c, in) ==
    LET c1 == start_checkpoint(c, in)
    IN  IF c1.ret = "Err" THEN c1 ELSE [c1 EXCEPT !.ret = "true"]

checkpoint(c, in) ==
    IF c.checkpoint_state.kind = "None"
    THEN LET c1 == start_checkpoint(c, in)
         IN  IF c1.ret = "Err" THEN c1 ELSE [c1 EXCEPT !.ret = "true"]
    ELSE [c EXCEPT !.ret = "false"]

checkpoint_finished(c, in) ==
    LET c1 == IF c.checkpoint_state.kind # "None"
              THEN finish_checkpoint_if_done(c, in)
              ELSE Ok(c)
    IN  IF c1.ret = "Err"
        THEN c1
        ELSE [c1 EXCEPT !.ret =
                 IF c1.checkpoint_state.kind = "None" THEN "true" ELSE "false"]

\* reap_cleanup that adopts the new minimum whatever the task's outcome
reap_cleanup_adopts_always(c) ==
    IF c.cleanup_task.status \notin {"none", "running"}
    THEN [c EXCEPT !.min_epoch = c.cleanup_task.new_min,
                   !.cleanup_task = NoTask]
    ELSE c

\* progress, check on compaction: a cleanup task that has ended is reaped
reap_cleanup(c) ==
    IF c.cleanup_task.status \notin {"none", "running"}
    THEN IF c.cleanup_task.status = "ok"
         THEN [c EXCEPT !.min_epoch = c.cleanup_task.new_min,
                        !.cleanup_task = NoTask]
         ELSE [c EXCEPT !.cleanup_task = NoTask]
    ELSE c

\* progress that never spawns a cleanup task
launch_cleanup_never(c) == c

\* progress: a cleanup task is spawned when one is needed and the job is idle
launch_cleanup(c) ==
    LET needed == cleanup_needed(c)
    IN  IF /\ needed.some
           /\ c.cleanup_task = NoTask
           /\ c.checkpoint_state.kind = "None"
        THEN [c EXCEPT !.cleanup_task = start_cleanup(c, needed.value)]
        ELSE c

\* check_checkpointing that starts a checkpoint while a cleanup task exists
check_checkpointing_ignores_cleanup(c, in) ==
    IF c.checkpoint_state.kind # "None"
    THEN finish_checkpoint_if_done(c, in)
    ELSE IF elapsed(c.last_checkpoint) > c.config.checkpoint_interval
    THEN checkpoint(c, in)
    ELSE Ok(c)

\* check_checkpointing that starts a checkpoint as soon as the interval has
\* elapsed
check_checkpointing_at_interval(c, in) ==
    IF c.checkpoint_state.kind # "None"
    THEN finish_checkpoint_if_done(c, in)
    ELSE IF /\ elapsed(c.last_checkpoint) >= c.config.checkpoint_interval
            /\ c.cleanup_task = NoTask
    THEN checkpoint(c, in)
    ELSE Ok(c)

\* progress, check on checkpointing
check_checkpointing(c, in) ==
    IF c.checkpoint_state.kind # "None"
    THEN finish_checkpoint_if_done(c, in)
    ELSE IF /\ elapsed(c.last_checkpoint) > c.config.checkpoint_interval
            /\ c.cleanup_task = NoTask
    THEN checkpoint(c, in)
    ELSE Ok(c)

\* progress that looks at the cleanup task before anything else
progress_reaps_first(c, in) ==
    LET c1 == reap_cleanup(c)
    IN  IF failed(c1)
        THEN Err(c1)
        ELSE IF any_finished_sources(c1)
        THEN [c1 EXCEPT !.ret = "Finishing"]
        ELSE
          LET c3 == check_checkpointing(launch_cleanup(c1), in)
          IN  IF c3.ret = "Err" THEN c3 ELSE [c3 EXCEPT !.ret = "Continue"]

progress(c, in) ==
    IF failed(c)
    THEN Err(c)
    ELSE IF any_finished_sources(c)
    THEN [c EXCEPT !.ret = "Finishing"]
    ELSE
      LET c3 == check_checkpointing(launch_cleanup(reap_cleanup(c)), in)
      IN  IF c3.ret = "Err" THEN c3 ELSE [c3 EXCEPT !.ret = "Continue"]

\* ------------------------------------------------------------------------
\* Running state of the job state machine (states/running.rs)

\* What Running::next does with the result r of handle_message on a
\* RunningMessage: an error leaves the state as a retryable error with 10
\* retries, otherwise the loop goes on
running_message_outcome(r) ==
    IF r.ret = "Err"
    THEN [kind |-> "Retryable", retries |-> 10]
    ELSE [kind |-> "Continue", retries |-> 0]

\* pipeline.healthy_duration and the ttl of a preview job, in clock units
healthy_duration == 1
PreviewTtl == 2

NoTtl == [some |-> FALSE, value |-> 0]

\* Where Running::next leaves the job: StillRunning while its loop goes on
Transition(kind, mode) == [kind |-> kind, mode |-> mode]
StillRunning == Transition("Running", "")

\* The JobConfig a job is scheduled with
InitialConfig ==
    [stop_mode |-> "None", restart_nonce |-> 0, restart_mode |-> "safe",
     parallelism_overrides |-> {}, checkpoint_interval |-> checkpoint_interval]

\* The job context when Running is entered: ctx.config.ttl, ctx.status.restarts
\* (in memory and in the store), pipeline.allowed_restarts,
\* ctx.status.restart_nonce, the time since ctx.status.start_time and since
\* running_start, and the JobConfig held by the controller
JobContext(ttl, restarts, allowed_restarts, start_elapsed) ==
    [ttl |-> ttl, restarts |-> restarts, db_restarts |-> restarts,
     allowed_restarts |-> allowed_restarts, restart_nonce |-> 0,
     start_elapsed |-> start_elapsed, running_elapsed |-> 0,
     controller_config |-> InitialConfig, next |-> StillRunning]

\* states::stop_if_desired_running!: a config that asks for a stop ends
\* Running with Stopping in that mode
stop_if_desired_running(c) ==
    IF c.stop_mode # "None"
    THEN [some |-> TRUE, value |-> Transition("Stopping", c.stop_mode)]
    ELSE [some |-> FALSE, value |-> StillRunning]

\* JobController::operator_parallelism: the number of subtasks of a node of
\* the program, None for any other node id
operator_parallelism(c, node_id) ==
    IF node_id \in Nodes
    THEN [some |-> TRUE,
          value |-> Cardinality({t \in DOMAIN c.tasks : t[1] = node_id})]
    ELSE [some |-> FALSE, value |-> 0]

\* config_update that looks at the parallelism before the restart nonce
config_update_rescale_first(x, c, cfg) ==
    LET stop == stop_if_desired_running(cfg)
    IN  IF stop.some
        THEN [x EXCEPT !.next = stop.value]
        ELSE IF \E o \in cfg.parallelism_overrides :
                   LET actual == operator_parallelism(c, o[1])
                   IN  actual.some /\ actual.value # o[2]
        THEN [x EXCEPT !.next = Transition("Rescaling", "")]
        ELSE IF cfg.restart_nonce # x.restart_nonce
        THEN [x EXCEPT !.next = Transition("Restarting", cfg.restart_mode)]
        ELSE [x EXCEPT !.controller_config = cfg]

\* Running::next on JobMessage::ConfigUpdate(cfg); x is the job context, c the
\* controller
config_update(x, c, cfg) ==
    LET stop == stop_if_desired_running(cfg)
    IN  IF stop.some
        THEN [x EXCEPT !.next = stop.value]
        ELSE IF cfg.restart_nonce # x.restart_nonce
        THEN [x EXCEPT !.next = Transition("Restarting", cfg.restart_mode)]
        ELSE IF \E o \in cfg.parallelism_overrides :
                   LET actual == operator_parallelism(c, o[1])
                   IN  actual.some /\ actual.value # o[2]
        THEN [x EXCEPT !.next = Transition("Rescaling", "")]
        ELSE [x EXCEPT !.controller_config = cfg]

\* reset_restarts that keeps the 0 in memory when the write fails
reset_restarts_no_restore(x, db_fail) ==
    IF x.restarts > 0 /\ x.running_elapsed > healthy_duration
    THEN IF db_fail
         THEN [x EXCEPT !.restarts = 0]
         ELSE [x EXCEPT !.restarts = 0, !.db_restarts = 0]
    ELSE x

\* The head of the 200 ms tick: the restart count of a job that has been
\* running for more than healthy_duration is set to 0 and written to the
\* store; when the write fails (db_fail) the count is put back
reset_restarts(x, db_fail) ==
    IF x.restarts > 0 /\ x.running_elapsed > healthy_duration
    THEN IF db_fail
         THEN x
         ELSE [x EXCEPT !.restarts = 0, !.db_restarts = 0]
    ELSE x

\* progress_outcome that applies the restart budget to preview jobs too
progress_outcome_no_preview(x, ret) ==
    CASE ret = "Continue" -> StillRunning
      [] ret = "Finishing" -> Transition("Finishing", "")
      [] OTHER ->
           IF x.allowed_restarts # -1 /\ x.restarts >= x.allowed_restarts
           THEN Transition("Fatal", "")
           ELSE Transition("Recovering", "")

\* What the 200 ms tick does with the result of progress()
progress_outcome(x, ret) ==
    CASE ret = "Continue" -> StillRunning
      [] ret = "Finishing" -> Transition("Finishing", "")
      [] OTHER ->
           IF x.ttl.some
           THEN Transition("Fatal", "")
           ELSE IF x.allowed_restarts # -1 /\ x.restarts >= x.allowed_restarts
           THEN Transition("Fatal", "")
           ELSE Transition("Recovering", "")

\* The ttl timer of the select: ttl_end is 0 once the time since start_time
\* has reached the ttl, and there is no timer without a ttl
ttl_expired(x) == x.ttl.some /\ x.start_elapsed >= x.ttl.value

\* ------------------------------------------------------------------------
\* Initial states: the controller right after JobController::new

\* (epoch, min_epoch) restored from the last checkpoint, (0, 0) for a new job
InitEpochs == {<<0, 0>>, <<MaxInitEpoch, 0>>}

\* commit_state handed to JobController::new when the last checkpoint of the
\* job was left in the commit phase: its row is Committing in the store
RestoredCommit(e) ==
    [kind |-> "Committing", checkpoint_id |-> 1, epoch |-> e,
     subtasks_to_commit |-> TasksOf(Nodes \ Sources)]

NoReports == [finished |-> {}, commit_ops |-> {}, committed |-> {}]

\* JobController::new(config, ...): the first checkpoint is delayed by a
\* random amount below config.checkpoint_interval
new(epochs, config) ==
    /\ state = "Running"
    /\ \E p \in epochs :
          /\ epoch = p[1]
          /\ min_epoch = p[2]
          /\ \/ /\ checkpoint_state = NoState
                /\ db = <<>>
                /\ reported = NoReports
             \/ /\ p[1] > 0
                /\ checkpoint_state = RestoredCommit(p[1])
                /\ db = <<[epoch |-> p[1], min_epoch |-> p[2],
                           state |-> "committing", finish_time |-> FALSE]>>
                /\ reported = [NoReports EXCEPT !.finished = Tasks,
                                                !.commit_ops = Nodes \ Sources]
    /\ last_checkpoint
           \in {now + r : r \in 0 .. (config.checkpoint_interval - 1)}
    /\ workers = [w \in WorkerIds |-> [last_heartbeat |-> now, state |-> "Running"]]
    /\ tasks = [t \in Tasks |-> "Running"]
    /\ checkpoint_spans = <<>>
    /\ cleanup_task = NoTask
    /\ checkpoint_reqs = <<>>
    /\ job_finished_rx = [w \in WorkerIds |-> 0]
    /\ faults = 0

InitController(epochs) == new(epochs, InitialConfig)

\* A job that entered Running for the first time: no ttl, no restart so far,
\* unbounded restarts
InitOf(epochs) ==
    /\ InitController(epochs)
    /\ ctx = JobContext(NoTtl, 0, -1, 0)

Init == InitOf(InitEpochs)

\* ------------------------------------------------------------------------
\* Actions

\* The state after an operation that returned the controller value r
Commit(r) ==
    /\ state' = r.state
    /\ checkpoint_state' = r.checkpoint_state
    /\ epoch' = r.epoch
    /\ min_epoch' = r.min_epoch
    /\ last_checkpoint' = r.last_checkpoint
    /\ workers' = r.workers
    /\ tasks' = r.tasks
    /\ checkpoint_spans' = r.checkpoint_spans
    /\ cleanup_task' = r.cleanup_task
    /\ db' = r.db
    /\ checkpoint_reqs' = r.checkpoint_reqs
    /\ job_finished_rx' = r.job_finished_rx

NoFault(in) == [fail |-> "none", jf_fail |-> {}]

\* r is the outcome of an operation under the input in, r0 its outcome when
\* no external call fails: a failure that was hit counts as one fault
Faults(in, r, r0) ==
    /\ in = NoFault(in) \/ (faults < MaxFaults /\ r # r0)
    /\ faults' = IF in = NoFault(in) THEN faults ELSE faults + 1

\* The external calls an operation can reach from the current coordination
\* state (the others cannot fail in it)
FailPointsNow ==
    CASE checkpoint_state.kind = "None" ->
           {"none", "checkpoint_rpc", "create_checkpoint"}
      [] checkpoint_state.kind = "Checkpointing" ->
           {"none", "coordinator", "update_checkpoint", "write_metadata",
            "compact", "commit_rpc", "commit_rpc_second"}
      [] checkpoint_state.kind = "Committing" ->
           {"none", "compact", "commit_checkpoint"}

MsgEpochs == {e \in {epoch - 1, epoch} : e >= 0}

CheckpointMessages ==
    {Msg("TaskCheckpointEvent", e, t, ty, FALSE, 0, 0) :
        e \in MsgEpochs, t \in Tasks, ty \in EventTypes}
    \cup {m \in {Msg("TaskCheckpointFinished", e, t[1], "", t[2], 0, 0) :
                    e \in MsgEpochs, t \in Tasks \X BOOLEAN} :
             m.has_commit => m.task[1] \notin Sources}

\* Checkpoint messages stamped with the current epoch
CurrentEpochMessages == {m \in CheckpointMessages : m.epoch = epoch}

TaskMessages ==
    {Msg(ty, 0, t, "", FALSE, 0, 0) :
        ty \in {"TaskFinished", "TaskFailed"}, t \in Tasks \cup {UnknownTask}}

\* Heartbeats stamped with one of the instants in times, WorkerFinished from
\* the workers in ws
WorkerMessages(times, ws) ==
    {Msg("WorkerHeartbeat", 0, <<0, 0>>, "", FALSE, w, time) :
        w \in WorkerIds \cup {UnknownWorker}, time \in times}
    \cup {Msg("WorkerFinished", 0, <<0, 0>>, "", FALSE, w, 0) : w \in ws}

\* The reports the coordinator took in for the checkpoint in flight:
\* TaskCheckpointFinished during its Checkpointing phase (with the operators
\* that declared commit work), FinishedCommit during its Committing phase.  A
\* report the coordinator rejected with an error is not counted.  Kept from
\* the start of a checkpoint until its coordination state is dropped.
Report(msg, in) ==
    IF msg.epoch # epoch \/ in.fail = "coordinator"
    THEN reported
    ELSE IF msg.type = "TaskCheckpointFinished" /\ checkpoint_state.kind = "Checkpointing"
    THEN [reported EXCEPT !.finished = @ \cup {msg.task},
                          !.commit_ops = IF msg.has_commit
                                         THEN @ \cup {msg.task[1]} ELSE @]
    ELSE IF /\ msg.type = "TaskCheckpointEvent"
            /\ msg.event_type = "FinishedCommit"
            /\ checkpoint_state.kind = "Committing"
    THEN [reported EXCEPT !.committed = @ \cup {msg.task}]
    ELSE reported

ReportsAfter(r, rep) ==
    IF r.checkpoint_state.kind = "None" \/ r.epoch # epoch THEN NoReports ELSE rep

\* JobController::handle_message on one inbound message drawn from msgs; the
\* external calls in fails may fail, and the job_finished() calls to the
\* workers of one of the sets in jf_fails
HandleMessageOf(msgs, fails, jf_fails) ==
    \E msg \in msgs :
      \E in \in [fail : IF msg.epoch = epoch THEN fails ELSE {"none"},
                  jf_fail : jf_fails] :
        LET r == handle_message(Ctl, msg, in)
        IN  /\ Faults(in, r, handle_message(Ctl, msg, NoFault(in)))
            /\ Commit(r)
            /\ reported' = ReportsAfter(r, Report(msg, in))
            /\ ctx' = ctx

\* The 200 ms tick of the Running state: JobController::progress
ProgressOf(fails, max_starts) ==
    \E in \in [fail : fails, jf_fail : {{}}] :
        LET r == progress(Ctl, in)
        IN  /\ Faults(in, r, progress(Ctl, NoFault(in)))
            /\ Len(r.checkpoint_reqs) <= max_starts
            /\ Commit(r)
            /\ reported' = ReportsAfter(r, reported)
            /\ ctx' = ctx

\* JobController::checkpoint(then_stop), called by the stopping states
CheckpointOf(fails, max_starts) ==
    \E in \in [fail : fails, jf_fail : {{}}] :
        LET r == checkpoint(Ctl, in)
        IN  /\ Faults(in, r, checkpoint(Ctl, NoFault(in)))
            /\ Len(r.checkpoint_reqs) <= max_starts
            /\ Commit(r)
            /\ reported' = ReportsAfter(r, reported)
            /\ ctx' = ctx

\* JobController::checkpoint_finished, called by the stopping states
CheckpointFinishedOf(fails) ==
    \E in \in [fail : fails, jf_fail : {{}}] :
        LET r == checkpoint_finished(Ctl, in)
        IN  /\ Faults(in, r, checkpoint_finished(Ctl, NoFault(in)))
            /\ Commit(r)
            /\ reported' = ReportsAfter(r, reported)
            /\ ctx' = ctx

\* The spawned cleanup task runs to its end: Ok(new_min), Err(_) or a panic
CleanupTaskEnds ==
    /\ cleanup_task.status = "running"
    /\ \E outcome \in {"ok", "err", "panic"} :
          /\ outcome = "ok" \/ faults < MaxFaults
          /\ cleanup_task' = [cleanup_task EXCEPT !.status = outcome]
          /\ faults' = IF outcome = "ok" THEN faults ELSE faults + 1
    /\ UNCHANGED <<state, checkpoint_state, epoch, min_epoch, last_checkpoint,
                   workers, tasks, checkpoint_spans, db,
                   checkpoint_reqs, job_finished_rx, reported, ctx>>

\* Time passes for the checkpoint timer only
TickCheckpoint ==
    /\ last_checkpoint' = Max(last_checkpoint - 1, OldestCheckpoint)
    /\ UNCHANGED <<state, checkpoint_state, epoch, min_epoch, workers,
                   tasks, checkpoint_spans, cleanup_task,
                   db, checkpoint_reqs, job_finished_rx, reported, faults,
                   ctx>>

\* ------------------------------------------------------------------------
\* Spec: the checkpoint and cleanup protocol.  The controller receives the
\* checkpoint reports of the workers, every external call may fail (within
\* MaxFaults), the tasks keep running and the workers keep their heartbeats
\* fresh.  Task and worker messages change no variable of the protocol
\* (epoch, min_epoch, checkpoint_state, cleanup_task, db, spans); they are
\* explored together with it in SpecFinish.

\* The external calls handle_message can reach: the coordinator, the update
\* of the checkpoint row and the compaction
MessageFailPoints == {"none", "coordinator", "update_checkpoint", "compact"}

\* A checkpoint message of another epoch changes no variable here (the tasks
\* keep running), so the steps deliver the messages of the current epoch
HandleCheckpointMessage ==
    HandleMessageOf(CurrentEpochMessages, FailPointsNow \cap MessageFailPoints,
                    {{}})

Progress == ProgressOf(FailPointsNow, MaxStarts)

Checkpoint == CheckpointOf(FailPointsNow, MaxStarts)

CheckpointFinished == CheckpointFinishedOf(FailPointsNow)

Next ==
    \/ HandleCheckpointMessage
    \/ Progress
    \/ Checkpoint
    \/ CheckpointFinished
    \/ CleanupTaskEnds
    \/ TickCheckpoint

Spec == Init /\ [][Next]_vars

\* ------------------------------------------------------------------------
\* SpecProgress: the checkpoint and cleanup protocol as the Running state
\* drives it, with the checkpoint reports of the workers and the 200 ms
\* progress tick only; checkpoint(then_stop) and checkpoint_finished(), which
\* the stopping states call, are left out.

NextProgress ==
    \/ HandleCheckpointMessage
    \/ Progress
    \/ CleanupTaskEnds
    \/ TickCheckpoint

SpecProgress == Init /\ [][NextProgress]_vars

\* ------------------------------------------------------------------------
\* SpecFinish: the whole message interface.  Every kind of inbound message,
\* with job_finished() calls that may fail; the other external calls succeed,
\* heartbeats carry the current time and at most MaxFinishStarts checkpoints
\* are started, in a job that is new or was restored after its first epoch
\* (no cleanup is due that early).

InitFinish == InitOf({<<0, 0>>, <<1, 0>>})

HandleMessage ==
    HandleMessageOf(CheckpointMessages \cup TaskMessages
                        \cup WorkerMessages({now}, {1, UnknownWorker}),
                    {"none"}, {{}, {1}})

ProgressTick == ProgressOf({"none"}, MaxFinishStarts)

StopCheckpoint == CheckpointOf({"none"}, MaxFinishStarts)

PollCheckpointFinished == CheckpointFinishedOf({"none"})

NextFinish ==
    \/ HandleMessage
    \/ ProgressTick
    \/ StopCheckpoint
    \/ PollCheckpointFinished
    \/ TickCheckpoint

SpecFinish == InitFinish /\ [][NextFinish]_vars

\* ------------------------------------------------------------------------
\* SpecCleanup: the cleanup decision for every (epoch, min_epoch) a job can
\* be restored with, min_epoch <= epoch <= MaxCleanupEpoch.  progress() runs
\* its compaction step; no checkpoint is started.

InitCleanup ==
    InitOf({p \in (0 .. MaxCleanupEpoch) \X (0 .. MaxCleanupEpoch) : p[2] <= p[1]})

CleanupProgress == ProgressOf({"none"}, 0)

NextCleanup ==
    \/ CleanupProgress
    \/ CleanupTaskEnds
    \/ TickCheckpoint

SpecCleanup == InitCleanup /\ [][NextCleanup]_vars

\* ------------------------------------------------------------------------
\* SpecCleanupRows: the cleanup of jobs restored with a min_epoch within
\* RowsMargin of CHECKPOINT_ROWS_TO_KEEP.

InitCleanupRows ==
    InitOf({p \in ((CHECKPOINT_ROWS_TO_KEEP - RowsMargin)
                      .. (CHECKPOINT_ROWS_TO_KEEP + RowsMargin + MaxCleanupEpoch))
                  \X ((CHECKPOINT_ROWS_TO_KEEP - RowsMargin)
                         .. (CHECKPOINT_ROWS_TO_KEEP + RowsMargin)) :
               p[2] <= p[1] /\ p[1] <= p[2] + MaxCleanupEpoch})

CleanupRowsProgress == ProgressOf({"none"}, 0)

NextCleanupRows ==
    \/ CleanupRowsProgress
    \/ CleanupTaskEnds
    \/ TickCheckpoint

SpecCleanupRows == InitCleanupRows /\ [][NextCleanupRows]_vars

\* ------------------------------------------------------------------------
\* SpecRunning: the loop of Running::next.  Each step is one branch of its
\* select taken to its end: an inbound message, the 200 ms tick or the ttl
\* timer (the 60 s log tick changes nothing).  The select takes any branch
\* that is ready.  Once the job has left Running nothing more happens.

ConfigUpdates ==
    [stop_mode : {"None", "Immediate"},
     restart_nonce : {0, 1},
     restart_mode : {"safe", "force"},
     parallelism_overrides :
         {{}, {<<1, 1>>}, {<<1, 2>>}, {<<UnknownTask[1], 2>>},
          {<<1, 1>>, <<UnknownTask[1], 2>>}},
     checkpoint_interval : {checkpoint_interval}]

InitRunning ==
    /\ InitController({<<0, 0>>})
    /\ \E ttl \in {NoTtl, [some |-> TRUE, value |-> PreviewTtl]} :
       \E restarts \in 0 .. MaxRestarts :
       \E allowed_restarts \in {-1} \cup (1 .. MaxRestarts) :
       \E start_elapsed \in {0, 1} :
          ctx = JobContext(ttl, restarts, allowed_restarts, start_elapsed)

\* JobMessage::ConfigUpdate
RunningConfigUpdate ==
    /\ ctx.next = StillRunning
    /\ \E cfg \in ConfigUpdates : ctx' = config_update(ctx, Ctl, cfg)
    /\ UNCHANGED <<state, checkpoint_state, epoch, min_epoch, last_checkpoint,
                   workers, tasks, checkpoint_spans, cleanup_task, db,
                   checkpoint_reqs, job_finished_rx, reported, faults>>

\* JobMessage::RunningMessage
RunningMessage ==
    /\ ctx.next = StillRunning
    /\ \E msg \in TaskMessages :
          LET in == NoFault(msg)
              r == handle_message(Ctl, msg, in)
              out == running_message_outcome(r)
          IN  /\ Commit(r)
              /\ reported' = ReportsAfter(r, Report(msg, in))
              /\ ctx' = IF out.kind = "Retryable"
                        THEN [ctx EXCEPT !.next = Transition("Retryable", "")]
                        ELSE ctx
              /\ UNCHANGED faults

\* The 200 ms tick
RunningTick ==
    /\ ctx.next = StillRunning
    /\ \E db_fail \in BOOLEAN :
       \E in \in [fail : {"none", "checkpoint_rpc"}, jf_fail : {{}}] :
          LET x == reset_restarts(ctx, db_fail)
              r == progress(Ctl, in)
          IN  /\ db_fail => (faults < MaxFaults /\ x # reset_restarts(ctx, FALSE))
              /\ in # NoFault(in) =>
                     (faults < MaxFaults /\ ~db_fail
                      /\ r # progress(Ctl, NoFault(in)))
              /\ faults' = IF db_fail \/ in # NoFault(in)
                           THEN faults + 1 ELSE faults
              /\ Len(r.checkpoint_reqs) <= MaxFinishStarts
              /\ Commit(r)
              /\ reported' = ReportsAfter(r, reported)
              /\ ctx' = [x EXCEPT !.next = progress_outcome(x, r.ret)]

\* The ttl timer
RunningTtl ==
    /\ ctx.next = StillRunning
    /\ ttl_expired(ctx)
    /\ ctx' = [ctx EXCEPT !.next = Transition("Stopping", "Immediate")]
    /\ UNCHANGED <<state, checkpoint_state, epoch, min_epoch, last_checkpoint,
                   workers, tasks, checkpoint_spans, cleanup_task, db,
                   checkpoint_reqs, job_finished_rx, reported, faults>>

\* Time passes
RunningClock ==
    /\ ctx.next = StillRunning
    /\ ctx.running_elapsed < MaxRunningTime
    /\ ctx' = [ctx EXCEPT !.start_elapsed = @ + 1, !.running_elapsed = @ + 1]
    /\ last_checkpoint' = Max(last_checkpoint - 1, OldestCheckpoint)
    /\ UNCHANGED <<state, checkpoint_state, epoch, min_epoch, workers,
                   tasks, checkpoint_spans, cleanup_task,
                   db, checkpoint_reqs, job_finished_rx, reported, faults>>

NextRunning ==
    \/ RunningConfigUpdate
    \/ RunningMessage
    \/ RunningTick
    \/ RunningTtl
    \/ RunningClock

SpecRunning == InitRunning /\ [][NextRunning]_vars

\* ------------------------------------------------------------------------
\* SpecSelect: the select of Running::next with its 200 ms sleep.  The sleep
\* is created by the pass of the loop that polls it, so every pass waits the
\* full delay again, whichever branch ended the pass before.  ctx.slept is the
\* time the sleep of the current pass has run, in units of 100 ms.  The job
\* has no ttl, no external call fails and no checkpoint falls due, so that
\* the loop can go on for ever.  A message can arrive at any time.

TickDelay == 2

InitSelect ==
    /\ InitController({<<0, 0>>})
    /\ \E restarts \in 0 .. MaxRestarts :
       \E allowed_restarts \in {-1} \cup (1 .. MaxRestarts) :
          ctx = [slept |-> 0] @@ JobContext(NoTtl, restarts, allowed_restarts, 0)

\* msg = ctx.rx.recv(): the message is handled and the loop starts its next
\* pass
SelectMessage ==
    /\ ctx.next = StillRunning
    /\ \E msg \in TaskMessages :
          LET in == NoFault(msg)
              r == handle_message(Ctl, msg, in)
              out == running_message_outcome(r)
          IN  /\ Commit(r)
              /\ reported' = ReportsAfter(r, Report(msg, in))
              /\ ctx' = IF out.kind = "Retryable"
                        THEN [ctx EXCEPT !.next = Transition("Retryable", ""),
                                         !.slept = 0]
                        ELSE [ctx EXCEPT !.slept = 0]
              /\ UNCHANGED faults

\* The sleep has run its delay: restart reset and progress(), then the next
\* pass
SelectTick ==
    /\ ctx.next = StillRunning
    /\ ctx.slept >= TickDelay
    /\ LET x == reset_restarts(ctx, FALSE)
           r == progress(Ctl, NoFault(0))
       IN  /\ Commit(r)
           /\ reported' = ReportsAfter(r, reported)
           /\ ctx' = [x EXCEPT !.next = progress_outcome(x, r.ret),
                               !.slept = 0]
           /\ UNCHANGED faults

\* 100 ms pass while the select waits
SelectClock ==
    /\ ctx.next = StillRunning
    /\ ctx.slept < TickDelay
    /\ ctx' = [ctx EXCEPT !.slept = @ + 1,
                          !.running_elapsed =
                              IF @ > healthy_duration THEN @ ELSE @ + 1]
    /\ UNCHANGED <<state, checkpoint_state, epoch, min_epoch, last_checkpoint,
                   workers, tasks, checkpoint_spans, cleanup_task,
                   db, checkpoint_reqs, job_finished_rx, reported, faults>>

NextSelect == SelectMessage \/ SelectTick \/ SelectClock

SpecSelect == InitSelect /\ [][NextSelect]_vars

\* Time passes, and a sleep that is ready again and again ends the select at
\* some point (the select picks among the ready branches at random)
SpecSelectFair ==
    SpecSelect /\ WF_vars(SelectClock) /\ SF_vars(SelectTick)

\* ------------------------------------------------------------------------
\* SpecWorkers: the task and worker messages handled between two ticks of the
\* clock.  A heartbeat carries the instant at which it was received, the
\* current one or an earlier one when it was delayed on its way to the job
\* queue.

HandleWorkerMessage ==
    HandleMessageOf(TaskMessages
                        \cup WorkerMessages({now, now - 1},
                                            WorkerIds \cup {UnknownWorker}),
                    {"none"}, {{}, {1}})

SpecWorkers == InitFinish /\ [][HandleWorkerMessage]_vars

\* ------------------------------------------------------------------------
\* arroyo-api rest_utils: pagination.  A u32 is scaled to LimitBits bits.

LimitBits == 4
U32_MAX == 2 ^ LimitBits - 1
DEFAULT_ITEMS_PER_PAGE == 10

None == [some |-> FALSE, value |-> 0]
Some(v) == [some |-> TRUE, value |-> v]

\* a + b on u32: the sum, or on overflow a panic (overflow checks on) or the
\* wrapped sum (overflow checks off), whichever the build does
u32_add(a, b) ==
    IF a + b <= U32_MAX
    THEN {[panic |-> FALSE, value |-> a + b]}
    ELSE {[panic |-> TRUE, value |-> 0],
          [panic |-> FALSE, value |-> (a + b) % (U32_MAX + 1)]}

\* The outcomes of validate_pagination_params(starting_after, limit)
validate_pagination_params(starting_after, limit) ==
    IF limit.some /\ limit.value < 1
    THEN {[kind |-> "Err", status_code |-> "BAD_REQUEST"]}
    ELSE {IF sum.panic
          THEN [kind |-> "Panic"]
          ELSE [kind |-> "Ok", starting_after |-> starting_after,
                limit |-> sum.value] :
             sum \in u32_add(IF limit.some THEN limit.value
                                           ELSE DEFAULT_ITEMS_PER_PAGE, 1)}

\* paginate_results on a result of len rows: the number of rows returned and
\* has_more
paginate_results(len, limit) ==
    LET has_more == (len = limit)
    IN  [len |-> IF has_more THEN len - 1 ELSE len, has_more |-> has_more]

\* SpecPagination: one list request.  ctx holds the query parameters, then the
\* outcome of validate_pagination_params, then the page cut by
\* paginate_results from the rows the store returned (at most the fetch
\* limit, out of MaxRows + 1 stored ones).

MaxRows == 3
Cursors == {None, Some("a"), Some("b")}
NoResult == [kind |-> "NoResult"]
NoPage == [len |-> 0, has_more |-> FALSE, cut |-> FALSE]

InitPagination ==
    /\ InitController({<<0, 0>>})
    /\ \E starting_after \in Cursors :
       \E limit \in {None} \cup {Some(v) : v \in 0 .. U32_MAX} :
          ctx = [starting_after |-> starting_after, limit |-> limit,
                 controller_config |-> InitialConfig,
                 result |-> NoResult, page |-> NoPage]

ValidatePagination ==
    /\ ctx.result = NoResult
    /\ \E result \in validate_pagination_params(ctx.starting_after, ctx.limit) :
          ctx' = [ctx EXCEPT !.result = result]
    /\ UNCHANGED <<state, checkpoint_state, epoch, min_epoch, last_checkpoint,
                   workers, tasks, checkpoint_spans, cleanup_task, db,
                   checkpoint_reqs, job_finished_rx, reported, faults>>

PaginateResults ==
    /\ ctx.result.kind = "Ok"
    /\ ~ctx.page.cut
    /\ \E stored \in 0 .. (MaxRows + 1) :
          LET len == IF stored < ctx.result.limit
                     THEN stored ELSE ctx.result.limit
              page == paginate_results(len, ctx.result.limit)
          IN  ctx' = [ctx EXCEPT !.page = [len |-> page.len,
                                          has_more |-> page.has_more,
                                          cut |-> TRUE]]
    /\ UNCHANGED <<state, checkpoint_state, epoch, min_epoch, last_checkpoint,
                   workers, tasks, checkpoint_spans, cleanup_task, db,
                   checkpoint_reqs, job_finished_rx, reported, faults>>

NextPagination == ValidatePagination \/ PaginateResults

SpecPagination == InitPagination /\ [][NextPagination]_vars

\* ------------------------------------------------------------------------
\* arroyo-types: the key ranges of the subtasks.  u64 and usize are scaled to
\* HashBits bits.

HashBits == 6
U64_MAX == 2 ^ HashBits - 1

\* An arithmetic result on u64: the value, or on overflow a panic (overflow
\* checks on) or the wrapped value (overflow checks off)
u64_checked(v) ==
    IF v <= U64_MAX
    THEN {[panic |-> FALSE, value |-> v]}
    ELSE {[panic |-> TRUE, value |-> 0],
          [panic |-> FALSE, value |-> v % (U64_MAX + 1)]}

\* server_for_hash with a range size of u64::MAX / n
server_for_hash_floor_size(x, n) ==
    IF n = 1
    THEN 0
    ELSE LET range_size == U64_MAX \div n
         IN  x \div range_size

server_for_hash(x, n) ==
    IF n = 1
    THEN 0
    ELSE LET range_size == (U64_MAX \div n) + 1
         IN  x \div range_size

\* The outcomes of range_for_server(i, n): a panic or the range start..=end
range_for_server(i, n) ==
    IF n = 1
    THEN {[panic |-> FALSE, start |-> 0, end |-> U64_MAX]}
    ELSE LET range_size == (U64_MAX \div n) + 1
         IN  UNION {
               IF start.panic
               THEN {[panic |-> TRUE, start |-> 0, end |-> 0]}
               ELSE IF i + 1 = n
               THEN {[panic |-> FALSE, start |-> start.value,
                      end |-> U64_MAX]}
               ELSE UNION {
                      IF sum.panic
                      THEN {[panic |-> TRUE, start |-> 0, end |-> 0]}
                      ELSE {[panic |-> FALSE, start |-> start.value,
                             end |-> sum.value - 1]} :
                         sum \in u64_checked(start.value + range_size)} :
                  start \in u64_checked(range_size * i)}

\* SpecHashRanges: one key routed among n servers.  ctx holds the hash x and
\* the number of servers n, then the server chosen by server_for_hash and the
\* range of one server as range_for_server returned it.

NoServer == [some |-> FALSE, value |-> 0]
NoRange == [some |-> FALSE, of |-> 0, panic |-> FALSE, start |-> 0, end |-> 0]

InitHashRanges ==
    /\ InitController({<<0, 0>>})
    /\ \E x \in 0 .. U64_MAX :
       \E n \in 1 .. U64_MAX :
          ctx = [x |-> x, n |-> n, controller_config |-> InitialConfig,
                 server |-> NoServer, range |-> NoRange]

ServerForHash ==
    /\ ~ctx.server.some
    /\ ctx' = [ctx EXCEPT !.server =
                  [some |-> TRUE, value |-> server_for_hash(ctx.x, ctx.n)]]
    /\ UNCHANGED <<state, checkpoint_state, epoch, min_epoch, last_checkpoint,
                   workers, tasks, checkpoint_spans, cleanup_task, db,
                   checkpoint_reqs, job_finished_rx, reported, faults>>

\* The range of the chosen server, when there is such a server, or of the
\* last one
RangeForServer ==
    /\ ctx.server.some
    /\ ~ctx.range.some
    /\ \E i \in {ctx.server.value, ctx.n - 1} \cap (0 .. (ctx.n - 1)) :
       \E r \in range_for_server(i, ctx.n) :
          ctx' = [ctx EXCEPT !.range =
                     [some |-> TRUE, of |-> i, panic |-> r.panic,
                      start |-> r.start, end |-> r.end]]
    /\ UNCHANGED <<state, checkpoint_state, epoch, min_epoch, last_checkpoint,
                   workers, tasks, checkpoint_spans, cleanup_task, db,
                   checkpoint_reqs, job_finished_rx, reported, faults>>

NextHashRanges == ServerForHash \/ RangeForServer

SpecHashRanges == InitHashRanges /\ [][NextHashRanges]_vars

\* ------------------------------------------------------------------------
\* SpecOrder: the protocol of SpecProgress while tasks finish and fail

HandleTaskMessage == HandleMessageOf(TaskMessages, {"none"}, {{}})

NextOrder == NextProgress \/ HandleTaskMessage

SpecOrder == Init /\ [][NextOrder]_vars

\* SpecBacklog: the protocol of SpecProgress for every controller created
\* with at most CHECKPOINTS_TO_KEEP + COMPACT_EVERY epochs between min_epoch
\* and epoch

MaxBacklog == CHECKPOINTS_TO_KEEP + COMPACT_EVERY

BacklogEpochs == {<<m + d, m>> : m \in {0, 1}, d \in 0 .. MaxBacklog}

InitBacklog == InitOf(BacklogEpochs)

SpecBacklog == InitBacklog /\ [][NextProgress]_vars

\* SpecHeartbeat: the task and worker messages of SpecWorkers while time
\* passes for the heartbeats: every last_heartbeat grows older by one clock
\* unit at a time

TickHeartbeat ==
    /\ workers' = [w \in DOMAIN workers |->
                      [workers[w] EXCEPT !.last_heartbeat =
                           Max(@ - 1, OldestHeartbeat)]]
    /\ workers' # workers
    /\ UNCHANGED <<state, checkpoint_state, epoch, min_epoch, last_checkpoint,
                   tasks, checkpoint_spans, cleanup_task, db,
                   checkpoint_reqs, job_finished_rx, reported, faults, ctx>>

NextHeartbeat == HandleWorkerMessage \/ TickHeartbeat

SpecHeartbeat == InitFinish /\ [][NextHeartbeat]_vars

\* SpecEpochWidth: the protocol of SpecProgress for a job whose epoch is about
\* to pass the largest value the store's integer type holds

InitEpochWidth == InitOf({<<I32_MAX - 1, I32_MAX - 5>>})

SpecEpochWidth == InitEpochWidth /\ [][NextProgress]_vars

\* SpecStagger: the first checkpoints of a controller created with a
\* checkpoint_interval of 1 .. MaxInterval clock units.  Time is counted from
\* JobController::new: ctx.since_new is the time that has passed since then
\* and ctx.stagger the random delay drawn by new.  The instants are kept
\* relative to now, without saturation, up to MaxStaggerTime.

MaxStaggerTime == 2 * MaxInterval + 1

InitStagger ==
    \E interval \in 1 .. MaxInterval :
        LET config == [InitialConfig EXCEPT !.checkpoint_interval = interval]
        IN  /\ new({<<0, 0>>}, config)
            /\ ctx = [controller_config |-> config, since_new |-> 0,
                      stagger |-> last_checkpoint - now]

StaggerProgress == ProgressOf({"none", "checkpoint_rpc"}, MaxStarts)

StaggerMessage ==
    HandleMessageOf(CurrentEpochMessages, {"none"}, {{}})

StaggerClock ==
    /\ ctx.since_new < MaxStaggerTime
    /\ last_checkpoint' = last_checkpoint - 1
    /\ ctx' = [ctx EXCEPT !.since_new = @ + 1]
    /\ UNCHANGED <<state, checkpoint_state, epoch, min_epoch, workers,
                   tasks, checkpoint_spans, cleanup_task,
                   db, checkpoint_reqs, job_finished_rx, reported, faults>>

NextStagger == StaggerProgress \/ StaggerMessage \/ StaggerClock

SpecStagger == InitStagger /\ [][NextStagger]_vars

\* ------------------------------------------------------------------------
\* Properties

\* C1: in every reachable state a coordination state (Checkpointing or
\* Committing) and a cleanup task are never present at the same time.
C1_CheckpointExcludesCleanup ==
    ~(checkpoint_state.kind # "None" /\ cleanup_task # NoTask)

\* C2: every start_checkpoint (a CheckpointReq fan-out) happens in a state in
\* which the coordination state is None.
C2_StartOnlyWhenNone ==
    [][Len(checkpoint_reqs') > Len(checkpoint_reqs)
          => checkpoint_state.kind = "None"]_vars

\* A second checkpoint was started after the first one completed
C2_Witness ==
    /\ Len(checkpoint_reqs) = 2
    /\ checkpoint_state.kind = "Checkpointing"
    /\ \E i \in DOMAIN db :
          db[i].epoch = checkpoint_reqs[1] /\ db[i].state = "ready"

\* C3: every start_checkpoint uses an epoch strictly greater than every earlier
\* one, also after a start that failed, and no two checkpoint rows of the job
\* carry the same epoch.
C3_EpochsStrictlyIncrease ==
    /\ \A i, j \in DOMAIN checkpoint_reqs :
          i < j => checkpoint_reqs[i] < checkpoint_reqs[j]
    /\ \A i, j \in DOMAIN db : i # j => db[i].epoch # db[j].epoch

\* The first start failed before its row was written, the second one wrote
\* its row
C3_Witness ==
    /\ Len(checkpoint_reqs) = 2
    /\ \A i \in DOMAIN db : db[i].epoch # checkpoint_reqs[1]
    /\ \E i \in DOMAIN db : db[i].epoch = checkpoint_reqs[2]

\* C4: a checkpoint row becomes Ready only in a step taken after every subtask
\* reported TaskCheckpointFinished for the epoch and, when operators declared
\* commit work, after all of their subtasks reported FinishedCommit.
C4_ReadyOnlyAfterAllReports ==
    [][\A i \in DOMAIN db' :
          (db'[i].state = "ready" /\ (i \notin DOMAIN db \/ db[i].state # "ready"))
             => /\ db'[i].epoch = epoch
                /\ reported.finished = Tasks
                /\ TasksOf(reported.commit_ops) \subseteq reported.committed]_vars

\* A checkpoint started in this run went through the commit phase and its row
\* is Ready
C4_Witness ==
    /\ Len(checkpoint_reqs) >= 1
    /\ HasSpan(checkpoint_spans, "Committing")
    /\ checkpoint_state.kind = "None"
    /\ \E i \in DOMAIN db : db[i].epoch = epoch /\ db[i].state = "ready"

\* C5: job_finished() is sent (and the model stopped) only by a step that
\* starts in the Running state and ends with every task Finished and no
\* coordination state.
C5_JobFinishedOnlyWhenDone ==
    [][(state' # state \/ job_finished_rx' # job_finished_rx)
          => /\ state = "Running"
             /\ \A t \in DOMAIN tasks' : tasks'[t] = "Finished"
             /\ checkpoint_state'.kind = "None"]_vars

\* job_finished() reached every worker
C5_Witness ==
    /\ state = "Stopped"
    /\ \A w \in WorkerIds : job_finished_rx[w] = 1

\* C6: once all tasks are Finished and the coordination state is None, every
\* worker receives job_finished() exactly once.  job_finished() is only ever
\* sent by the step that stops the model, so the claim requires that in a
\* stopped model every worker has received exactly one call.
C6_EveryWorkerNotifiedOnce ==
    state = "Stopped" => \A w \in WorkerIds : job_finished_rx[w] = 1

\* Checkpoint messages stamped with another epoch than the current one
WrongEpochMessages ==
    {Msg("TaskCheckpointEvent", e, t, ty, FALSE, 0, 0) :
        e \in {epoch - 1, epoch + 1}, t \in Tasks, ty \in EventTypes}
    \cup {Msg("TaskCheckpointFinished", e, t[1], "", t[2], 0, 0) :
             e \in {epoch - 1, epoch + 1}, t \in Tasks \X BOOLEAN}

JobFinishedInputs == {[fail |-> "none", jf_fail |-> f] : f \in {{}, {1}}}

\* C7 as claimed: a checkpoint message of another epoch leaves the whole model
\* state unchanged (job state, coordination state, tasks, workers, epoch,
\* min_epoch, spans) and writes nothing to the database.
C7_WrongEpochChangesNothing ==
    \A msg \in WrongEpochMessages, in \in JobFinishedInputs :
        LET r == handle_message(Ctl, msg, in)
        IN  /\ r.state = state
            /\ r.checkpoint_state = checkpoint_state
            /\ r.tasks = tasks
            /\ r.workers = workers
            /\ r.epoch = epoch
            /\ r.min_epoch = min_epoch
            /\ r.checkpoint_spans = checkpoint_spans
            /\ r.db_ops = <<>>

\* C7 amended: a checkpoint message of another epoch leaves the coordination
\* state, tasks, workers, epoch, min_epoch and spans unchanged and writes
\* nothing to the database; the job state changes only when the job is Running
\* with every task Finished and no coordination state, and then job_finished()
\* is sent and the state becomes Stopped.
C7_WrongEpochFrame ==
    \A msg \in WrongEpochMessages, in \in JobFinishedInputs :
        LET r == handle_message(Ctl, msg, in)
            finished == /\ state = "Running"
                        /\ all_tasks_finished(Ctl)
                        /\ checkpoint_state.kind = "None"
        IN  /\ r.ret = "Ok"
            /\ r.checkpoint_state = checkpoint_state
            /\ r.tasks = tasks
            /\ r.workers = workers
            /\ r.epoch = epoch
            /\ r.min_epoch = min_epoch
            /\ r.checkpoint_spans = checkpoint_spans
            /\ r.db = db
            /\ r.db_ops = <<>>
            /\ r.state = IF finished THEN "Stopped" ELSE state
            /\ r.job_finished_rx # job_finished_rx => finished

\* A checkpoint is in flight with a report received, and a message of the
\* previous epoch is dropped
C7_Witness ==
    /\ checkpoint_state.kind = "Checkpointing"
    /\ checkpoint_state.finished # {}
    /\ \E msg \in WrongEpochMessages :
          /\ msg.type = "TaskCheckpointFinished"
          /\ msg.epoch = epoch - 1
          /\ handle_message(Ctl, msg, NoFault(msg)) = Ctl

\* C8: min_epoch never decreases.
C8_MinEpochMonotonic == [][min_epoch' >= min_epoch]_vars

\* A cleanup was reaped and checkpoints went on after it
C8_Witness == min_epoch >= 2 /\ epoch > min_epoch + CHECKPOINTS_TO_KEEP

\* C9: min_epoch <= epoch in every reachable state.
C9_MinEpochAtMostEpoch == min_epoch <= epoch

\* A cleanup was reaped in the epoch it was computed for
C9_Witness ==
    /\ min_epoch >= 1
    /\ min_epoch = epoch - CHECKPOINTS_TO_KEEP
    /\ cleanup_task = NoTask

\* C10: whenever a cleanup task exists, the old minimum passed to it is at
\* least 1 and its new_min is strictly less than the current epoch.
C10_CleanupArguments ==
    cleanup_task # NoTask
        => cleanup_task.min_epoch >= 1 /\ cleanup_task.new_min < epoch

\* A cleanup task runs in a job whose min_epoch is still 0
C10_Witness ==
    /\ cleanup_task.status = "running"
    /\ min_epoch = 0
    /\ cleanup_task.min_epoch = 1

\* C11: for min_epoch <= epoch, cleanup_needed() is Some(epoch - 4) exactly
\* when epoch - min_epoch > 4 and epoch is even, and None otherwise; (0, 4)
\* and epoch 5 give None, (epoch 6, min_epoch 1) gives Some(2).
C11_CleanupNeededValue ==
    LET needed == cleanup_needed(Ctl)
    IN  /\ needed.some <=> (epoch - min_epoch > 4 /\ epoch % 2 = 0)
        /\ needed.some => needed.value = epoch - 4
        /\ (epoch = 4 /\ min_epoch = 0) => ~needed.some
        /\ epoch = 5 => ~needed.some
        /\ (epoch = 6 /\ min_epoch = 1) => (needed.some /\ needed.value = 2)

\* progress() launched the cleanup that cleanup_needed() asked for at
\* (epoch 6, min_epoch 1)
C11_Witness ==
    /\ epoch = 6
    /\ min_epoch = 1
    /\ cleanup_task.status = "running"
    /\ cleanup_task.new_min = 2

\* C12: under any sequence of TaskFinished and TaskFailed messages a task
\* leaves Running at most once (it never returns to Running), and a task that
\* is Failed stays Failed.
C12_TaskStateTerminal ==
    [][\A t \in DOMAIN tasks :
          /\ tasks[t] # "Running" => tasks'[t] # "Running"
          /\ tasks[t] = "Failed" => tasks'[t] = "Failed"]_vars

\* C13: for every worker, last_heartbeat never moves backwards, whatever the
\* arrival order and the time values of the WorkerHeartbeat messages.
C13_HeartbeatMonotonic ==
    [][\A w \in DOMAIN workers :
          workers'[w].last_heartbeat >= workers[w].last_heartbeat]_vars

\* An update of the row of the checkpoint in flight among the writes of r
WritesCheckpoint(r) ==
    \E i \in DOMAIN r.db_ops : r.db_ops[i].id = checkpoint_state.checkpoint_id

\* C14: every handle_message branch that changes the coordination state, in
\* the Checkpointing phase and in the Committing phase, writes the change to
\* the metadata store before handle_message returns Ok.
C14_CoordinationChangePersisted ==
    \A msg \in CurrentEpochMessages :
        LET r == handle_message(Ctl, msg, NoFault(msg))
        IN  (r.ret = "Ok" /\ r.checkpoint_state # checkpoint_state)
                => WritesCheckpoint(r)

\* C15: a TaskCheckpointFinished of the current epoch that arrives in the
\* Committing phase makes handle_message return an error without changing the
\* coordination state, and the Running state turns that error into a fatal
\* error.
C15_FinishedWhileCommittingIsFatal ==
    checkpoint_state.kind = "Committing" =>
        \A msg \in CurrentEpochMessages :
            msg.type = "TaskCheckpointFinished" =>
                LET r == handle_message(Ctl, msg, NoFault(msg))
                IN  /\ r.ret = "Err"
                    /\ r.checkpoint_state = checkpoint_state
                    /\ running_message_outcome(r).kind = "Fatal"

\* C16: in the Committing phase a TaskCheckpointEvent or
\* TaskCheckpointFinished of another epoch is dropped: handle_message returns
\* Ok and the coordination state (the committed subtasks) is unchanged,
\* whatever external call would fail.
C16_WrongEpochDroppedWhileCommitting ==
    checkpoint_state.kind = "Committing" =>
        \A msg \in WrongEpochMessages,
           in \in [fail : FailPointsNow, jf_fail : {{}}] :
            LET r == handle_message(Ctl, msg, in)
            IN  r.ret = "Ok" /\ r.checkpoint_state = checkpoint_state

\* The commit phase of a checkpoint started in this run, all commits reported
C16_Witness ==
    /\ checkpoint_state.kind = "Committing"
    /\ Len(checkpoint_reqs) >= 1
    /\ checkpoint_state.subtasks_to_commit = {}
    /\ \E msg \in WrongEpochMessages :
          /\ msg.type = "TaskCheckpointFinished"
          /\ handle_message(Ctl, msg, NoFault(msg)) = Ctl

\* C17: a FinishedCommit event of the current epoch that arrives in the
\* Checkpointing phase is dropped: the coordination state is unchanged and
\* nothing is persisted.
C17_FinishedCommitDroppedWhileCheckpointing ==
    checkpoint_state.kind = "Checkpointing" =>
        \A msg \in CurrentEpochMessages :
            (msg.type = "TaskCheckpointEvent" /\ msg.event_type = "FinishedCommit")
                => LET r == handle_message(Ctl, msg, NoFault(msg))
                   IN  /\ r.checkpoint_state = checkpoint_state
                       /\ r.db_ops = <<>>

\* C18: in the Committing phase the only TaskCheckpointEvent of the current
\* epoch that changes the coordination state is FinishedCommit, which marks
\* exactly its (operator, subtask) as committed; every other event type
\* leaves it unchanged and does not run compact_state().
C18_OnlyFinishedCommitWhileCommitting ==
    checkpoint_state.kind = "Committing" =>
        \A msg \in CurrentEpochMessages,
           in \in [fail : {"none", "compact"}, jf_fail : {{}}] :
            msg.type = "TaskCheckpointEvent" =>
                LET r == handle_message(Ctl, msg, in)
                IN  IF msg.event_type = "FinishedCommit"
                    THEN /\ r.checkpoint_state.kind = "Committing"
                         /\ r.checkpoint_state.subtasks_to_commit =
                               checkpoint_state.subtasks_to_commit \ {msg.task}
                         /\ HasSpan(r.checkpoint_spans, "Compacting")
                    ELSE /\ r.ret = "Ok"
                         /\ r.checkpoint_state = checkpoint_state
                         /\ r.checkpoint_spans = checkpoint_spans

\* A FinishedCommit was handled in the commit phase and compaction ran
C18_Witness ==
    /\ checkpoint_state.kind = "Committing"
    /\ reported.committed # {}
    /\ HasSpan(checkpoint_spans, "Compacting")

\* C19: handling the same TaskCheckpointFinished of the current epoch twice
\* in the Checkpointing phase leaves the model in the state that handling it
\* once leaves, done() and the spans included.
C19_CheckpointFinishedIdempotent ==
    checkpoint_state.kind = "Checkpointing" =>
        \A msg \in CurrentEpochMessages :
            msg.type = "TaskCheckpointFinished" =>
                LET r1 == handle_message(Ctl, msg, NoFault(msg))
                    once == [r1 EXCEPT !.db_ops = <<>>]
                    r2 == handle_message(once, msg, NoFault(msg))
                IN  /\ r1.ret = "Ok"
                    /\ [r2 EXCEPT !.db_ops = <<>>] = once
                    /\ done(r2.checkpoint_state) = done(r1.checkpoint_state)

\* Every subtask has reported and the CheckpointingOperators span is closed
C19_Witness ==
    /\ checkpoint_state.kind = "Checkpointing"
    /\ checkpointing_done(checkpoint_state)
    /\ \E i \in DOMAIN checkpoint_spans :
          /\ checkpoint_spans[i].event = "CheckpointingOperators"
          /\ checkpoint_spans[i].finished

\* C20: when every subtask has reported TaskCheckpointFinished and no
\* operator declared commit work, finish_checkpoint_if_done moves the row from
\* InProgress to Ready with a finish time, persists the spans Checkpointing,
\* CheckpointingOperators and WritingMetadata closed, clears the coordination
\* state and resets last_checkpoint.
C20_FinishWithoutCommit ==
    (/\ checkpoint_state.kind = "Checkpointing"
     /\ checkpointing_done(checkpoint_state)
     /\ checkpoint_state.commit_ops = {}) =>
        LET r == finish_checkpoint_if_done(Ctl, NoFault(Ctl))
            id == checkpoint_state.checkpoint_id
            w == r.db_ops[1]
        IN  /\ db[id].state = "inprogress"
            /\ r.ret = "Ok"
            /\ r.db[id].state = "ready"
            /\ r.db[id].finish_time
            /\ Len(r.db_ops) = 1
            /\ w.op = "update_checkpoint" /\ w.id = id
            /\ w.state = "ready" /\ w.finish_time
            /\ \A ev \in {"Checkpointing", "CheckpointingOperators",
                          "WritingMetadata"} :
                  \E i \in DOMAIN w.spans :
                      w.spans[i].event = ev /\ w.spans[i].finished
            /\ r.checkpoint_state = NoState
            /\ r.last_checkpoint = now

\* A checkpoint of this run completed without a commit phase
C20_Witness ==
    /\ checkpoint_state.kind = "None"
    /\ Len(checkpoint_reqs) >= 1
    /\ last_checkpoint = now
    /\ ~HasSpan(checkpoint_spans, "Committing")
    /\ \E i \in DOMAIN checkpoint_spans :
          checkpoint_spans[i].event = "WritingMetadata" /\ checkpoint_spans[i].finished
    /\ \E i \in DOMAIN db : db[i].epoch = epoch /\ db[i].state = "ready"

\* C21: when some operator declared commit work the row of the checkpoint
\* goes InProgress, Committing, committed with a finish time, in this order:
\* it is persisted as Committing when the Checkpointing phase is done, the
\* commit is persisted and the coordination state cleared only after every
\* required subtask reported FinishedCommit, and the row is never Ready while
\* the coordination state is Committing.
C21_CommitRowOrder ==
    [][/\ \A i \in DOMAIN db :
            /\ i \in DOMAIN db'
            /\ (db[i].state = "inprogress" /\ db'[i].state # "inprogress"
                /\ checkpoint_state.kind = "Checkpointing"
                /\ checkpoint_state.commit_ops # {}) =>
                   /\ db'[i].state = "committing"
                   /\ i = checkpoint_state.checkpoint_id
                   /\ checkpointing_done(checkpoint_state)
                   /\ reported.finished = Tasks
            /\ (db[i].state = "committing" /\ db'[i].state # "committing") =>
                   /\ db'[i].state = "ready"
                   /\ db'[i].finish_time
                   /\ checkpoint_state.kind = "Committing"
                   /\ i = checkpoint_state.checkpoint_id
                   /\ TasksOf(reported.commit_ops) \subseteq reported.committed
                   /\ checkpoint_state' = NoState
            /\ db[i].state = "ready" => db'[i].state = "ready"
       /\ (checkpoint_state.kind = "Committing" /\ checkpoint_state' = NoState) =>
              TasksOf(reported.commit_ops) \subseteq reported.committed
       /\ checkpoint_state'.kind = "Committing" =>
              db'[checkpoint_state'.checkpoint_id].state = "committing"]_vars

\* A checkpoint of this run went through its commit phase and was committed
C21_Witness ==
    /\ checkpoint_state.kind = "None"
    /\ Len(checkpoint_reqs) >= 1
    /\ HasSpan(checkpoint_spans, "Committing")
    /\ \E i \in DOMAIN db :
          db[i].epoch = epoch /\ db[i].state = "ready" /\ db[i].finish_time

\* C22: for an epoch with commit work, while the job stays in Running each
\* worker receives exactly one commit(epoch, committing_data) call, made
\* after the row was persisted as Committing and carrying the current epoch;
\* no commit call is made for an epoch without commit work.
C22_OneCommitPerWorker ==
    LET entering == /\ checkpoint_state.kind = "Checkpointing"
                    /\ checkpointing_done(checkpoint_state)
                    /\ checkpoint_state.commit_ops # {}
    IN  \A f \in FailPointsNow :
            LET r == progress(Ctl, [fail |-> f, jf_fail |-> {}])
                calls == r.commit_calls
            IN  /\ calls # <<>> =>
                      /\ entering
                      /\ r.epoch = epoch
                      /\ r.checkpoint_state.kind = "Committing"
                      /\ r.checkpoint_state.epoch = epoch
                      /\ r.db[checkpoint_state.checkpoint_id].state
                             = "committing"
                      /\ \E i \in DOMAIN r.db_ops :
                             /\ r.db_ops[i].id = checkpoint_state.checkpoint_id
                             /\ r.db_ops[i].state = "committing"
                      /\ \A i \in DOMAIN calls : calls[i].epoch = epoch
                /\ \A w \in WorkerIds :
                      Cardinality({i \in DOMAIN calls : calls[i].worker = w})
                          = IF entering /\ r.ret # "Err" THEN 1
                            ELSE IF entering /\ calls # <<>> /\ w = WorkerOrder[1]
                            THEN 1 ELSE 0

\* The commit phase of a checkpoint of this run is under way: the fan-out of
\* its commit calls succeeded
C22_Witness ==
    /\ checkpoint_state.kind = "Committing"
    /\ checkpoint_state.subtasks_to_commit # {}
    /\ Len(checkpoint_reqs) >= 1
    /\ HasSpan(checkpoint_spans, "Committing")
    /\ faults = 0

\* C23: when a worker's checkpoint call fails during start_checkpoint the
\* start is aborted: it returns an error, no row is persisted for that epoch
\* and no coordination state is installed; when persisting the row fails, no
\* coordination state is installed either.
C23_FailedStartInstallsNothing ==
    checkpoint_state.kind = "None" =>
        LET rpc == start_checkpoint(Ctl, [fail |-> "checkpoint_rpc",
                                          jf_fail |-> {}])
            row == start_checkpoint(Ctl, [fail |-> "create_checkpoint",
                                          jf_fail |-> {}])
        IN  /\ rpc.ret = "Err"
            /\ rpc.db = db
            /\ rpc.db_ops = <<>>
            /\ \A i \in DOMAIN rpc.db : rpc.db[i].epoch # rpc.epoch
            /\ rpc.checkpoint_state = NoState
            /\ row.ret = "Err"
            /\ row.db = db
            /\ row.checkpoint_state = NoState

\* A checkpoint start of this run was aborted: the workers were asked for the
\* current epoch, and there is neither a row nor a coordination state for it
C23_Witness ==
    /\ checkpoint_state.kind = "None"
    /\ faults >= 1
    /\ Len(checkpoint_reqs) >= 1
    /\ checkpoint_reqs[Len(checkpoint_reqs)] = epoch
    /\ \A i \in DOMAIN db : db[i].epoch # epoch

\* C28: when cleanup_needed() is Some while a checkpoint is in flight,
\* progress() spawns no cleanup; on the first progress tick after the
\* checkpoint is finalized it spawns the cleanup task; and progress() starts
\* no checkpoint until that task has been reaped, even when
\* checkpoint_interval has elapsed.
C28_CleanupWaitsAndBlocksStart ==
    \A f \in FailPointsNow :
        LET r == progress(Ctl, [fail |-> f, jf_fail |-> {}])
        IN  /\ (checkpoint_state.kind # "None"
                /\ r.cleanup_task.status = "running") =>
                   r.cleanup_task = cleanup_task
            /\ (/\ checkpoint_state.kind = "None"
                /\ cleanup_task = NoTask
                /\ cleanup_needed(Ctl).some) =>
                   /\ r.cleanup_task =
                          start_cleanup(Ctl, cleanup_needed(Ctl).value)
                   /\ r.ret = "Continue"
                   /\ r.checkpoint_state = NoState
                   /\ r.checkpoint_reqs = checkpoint_reqs
            /\ cleanup_task.status = "running" =>
                   /\ r.cleanup_task = cleanup_task
                   /\ r.checkpoint_reqs = checkpoint_reqs
                   /\ r.epoch = epoch
                   /\ checkpoint_state.kind = "None" =>
                          r.checkpoint_state = NoState

\* A checkpoint of this run was finalized, the cleanup task spawned after it
\* is still running and checkpoint_interval has elapsed
C28_Witness ==
    /\ checkpoint_state.kind = "None"
    /\ Len(checkpoint_reqs) >= 1
    /\ cleanup_task.status = "running"
    /\ cleanup_task.cur_epoch = epoch
    /\ \E i \in DOMAIN db : db[i].epoch = epoch /\ db[i].state = "ready"
    /\ elapsed(last_checkpoint) > checkpoint_interval

\* C30: when a cleanup task ends with an error or a panic, min_epoch is
\* unchanged, progress() does not fail because of it, and a new cleanup task
\* is launched while cleanup is still needed and no checkpoint is in flight.
C30_FailedCleanupRetried ==
    cleanup_task.status \in {"err", "panic"} =>
        LET r == progress(Ctl, NoFault(Ctl))
            needed == cleanup_needed(Ctl)
        IN  /\ r.ret = "Continue"
            /\ r.min_epoch = min_epoch
            /\ r.cleanup_task.status \in {"none", "running"}
            /\ (needed.some /\ checkpoint_state.kind = "None") =>
                   r.cleanup_task = start_cleanup(Ctl, needed.value)
            /\ \A f \in FailPointsNow :
                   progress(Ctl, [fail |-> f, jf_fail |-> {}]).min_epoch
                       = min_epoch

\* A cleanup task that would have raised min_epoch ended with an error while
\* cleanup is needed and no checkpoint is in flight
C30_Witness ==
    /\ cleanup_task.status \in {"err", "panic"}
    /\ cleanup_task.new_min > min_epoch
    /\ cleanup_needed(Ctl).some
    /\ checkpoint_state.kind = "None"

\* C29: the cleanup task drops old rows exactly when the minimum it was
\* given is strictly greater than CHECKPOINT_ROWS_TO_KEEP, and then drops the
\* rows with epoch < minimum - CHECKPOINT_ROWS_TO_KEEP; for a minimum of at
\* most CHECKPOINT_ROWS_TO_KEEP (100 included) it makes no
\* drop_old_checkpoint_rows call.
C29_DropRowsOnlyAbove ==
    cleanup_task # NoTask =>
        /\ cleanup_task.drop_rows.some
               <=> cleanup_task.min_epoch > CHECKPOINT_ROWS_TO_KEEP
        /\ cleanup_task.drop_rows.some =>
               cleanup_task.drop_rows.value
                   = cleanup_task.min_epoch - CHECKPOINT_ROWS_TO_KEEP

C25_ConfigUpdateOutcome ==
    ctx.next = StillRunning =>
        \A cfg \in ConfigUpdates :
            cfg.stop_mode = "None" =>
                LET x == config_update(ctx, Ctl, cfg)
                    mismatch ==
                        \E o \in cfg.parallelism_overrides :
                            /\ o[1] \in Nodes
                            /\ o[2] # Cardinality({t \in Tasks : t[1] = o[1]})
                IN  /\ cfg.restart_nonce # ctx.restart_nonce =>
                        /\ x.next = Transition("Restarting", cfg.restart_mode)
                        /\ x.controller_config = ctx.controller_config
                    /\ (cfg.restart_nonce = ctx.restart_nonce /\ mismatch) =>
                        /\ x.next = Transition("Rescaling", "")
                        /\ x.controller_config = ctx.controller_config
                    /\ (cfg.restart_nonce = ctx.restart_nonce /\ ~mismatch) =>
                        /\ x.next = StillRunning
                        /\ x.controller_config = cfg
                    /\ (\A o \in cfg.parallelism_overrides : o[1] \notin Nodes)
                        => x.next.kind # "Rescaling"

\* The controller runs with a config whose only override names an unknown
\* node
C25_Witness ==
    /\ ctx.next = StillRunning
    /\ ctx.controller_config.parallelism_overrides # {}
    /\ \A o \in ctx.controller_config.parallelism_overrides : o[1] \notin Nodes

\* C26: once the time since start_time has reached the ttl of a job in
\* Running, the state machine goes to Stopping(Immediate), whether or not a
\* checkpoint or commit is in flight and whatever inbound messages are
\* pending; a job without a ttl never takes this transition.
C26_TtlForcesImmediateStop ==
    [][(/\ ctx.next = StillRunning
        /\ ttl_expired(ctx)
        /\ ctx'.next # StillRunning) =>
           ctx'.next = Transition("Stopping", "Immediate")]_vars

\* C27: on a tick in Running with restarts > 0 and more than
\* healthy_duration since Running was entered, the restart count is set to 0
\* and written to the store; when the write fails the count in memory is put
\* back (the reset is tried again on a later tick), so the count in memory is
\* 0 only when the store holds 0.
C27_RestartResetFollowsStore ==
    /\ ctx.restarts = ctx.db_restarts
    /\ \A db_fail \in BOOLEAN :
          LET x == reset_restarts(ctx, db_fail)
          IN  IF ctx.restarts > 0 /\ ctx.running_elapsed > healthy_duration
              THEN IF db_fail
                   THEN /\ x.restarts = ctx.restarts
                        /\ x.db_restarts = ctx.db_restarts
                        /\ x.restarts > 0
                        /\ x.running_elapsed > healthy_duration
                   ELSE x.restarts = 0 /\ x.db_restarts = 0
              ELSE x = ctx

\* The write of a reset failed: the job is still Running with its restart
\* count, in memory and in the store, and the reset is due again
C27_Witness ==
    /\ ctx.next = StillRunning
    /\ faults >= 1
    /\ ctx.restarts > 0
    /\ ctx.db_restarts = ctx.restarts
    /\ ctx.running_elapsed > healthy_duration

C32_NoWrappedEpoch ==
    /\ \A i \in DOMAIN db : db[i].epoch >= 0 /\ db[i].min_epoch >= 0
    /\ (epoch >= I32_MAX /\ checkpoint_state.kind = "None")
           => LET r == start_checkpoint(Ctl, NoFault(0))
              IN  r.ret = "Err" /\ r.db = db

\* C33: failed() is true when the last heartbeat of some worker is older
\* than worker_heartbeat_timeout or some task is Failed, and false when every
\* heartbeat age is at most the timeout and every task is Running or
\* Finished.
C33_FailedIffTimeoutOrFailedTask ==
    LET age(w) == now - workers[w].last_heartbeat
        stale == \E w \in DOMAIN workers : age(w) >= worker_heartbeat_timeout + 1
        fresh == \A w \in DOMAIN workers : age(w) <= worker_heartbeat_timeout
        task_failed == \E t \in DOMAIN tasks : tasks[t] = "Failed"
        tasks_fine == \A t \in DOMAIN tasks : tasks[t] \in {"Running", "Finished"}
    IN  /\ (stale \/ task_failed) => failed(Ctl)
        /\ (fresh /\ tasks_fine) => ~failed(Ctl)
        /\ stale \/ fresh
        /\ task_failed \/ tasks_fine

\* One worker's heartbeat is exactly worker_heartbeat_timeout old, the other
\* one is fresh, a task has finished and none has failed
C33_HeartbeatAtTimeout ==
    /\ \E w \in DOMAIN workers :
           now - workers[w].last_heartbeat = worker_heartbeat_timeout
    /\ \E w \in DOMAIN workers : workers[w].last_heartbeat = now
    /\ \E t \in DOMAIN tasks : tasks[t] = "Finished"
    /\ \A t \in DOMAIN tasks : tasks[t] # "Failed"
    /\ ~failed(Ctl)

\* C34: progress() checks in a fixed order.  When failed() holds it returns
\* an error and has no other effect: no cleanup task is reaped or launched, no
\* checkpoint is started or finalized.  Otherwise, when a source task is
\* Finished, it returns Finishing, again without any of those effects.
C34_ProgressOrder ==
    \A f \in FailPointsNow :
        LET r == progress(Ctl, [fail |-> f, jf_fail |-> {}])
        IN  /\ failed(Ctl) => r = Err(Ctl)
            /\ (~failed(Ctl) /\ any_finished_sources(Ctl))
                   => r = [Ctl EXCEPT !.ret = "Finishing"]

\* A task has failed while an ended cleanup task waits to be reaped
C34_FailedWithEndedCleanup ==
    /\ failed(Ctl)
    /\ cleanup_task.status \notin {"none", "running"}
    /\ progress(Ctl, NoFault(0)).ret = "Err"

\* C35: validate_pagination_params fails when limit is Some(0); for every
\* other limit it returns Ok with starting_after unchanged and a fetch limit
\* of limit + 1, an omitted limit counting as DEFAULT_ITEMS_PER_PAGE.
C35_FetchLimitIsLimitPlusOne ==
    ("result" \in DOMAIN ctx /\ ctx.result # NoResult) =>
        IF ctx.limit = Some(0)
        THEN ctx.result.kind = "Err"
        ELSE /\ ctx.result.kind = "Ok"
             /\ ctx.result.starting_after = ctx.starting_after
             /\ ctx.result.limit =
                   (IF ctx.limit.some THEN ctx.limit.value
                                      ELSE DEFAULT_ITEMS_PER_PAGE) + 1

\* For n servers: every range_for_server(i, n) is one range without overflow,
\* the hash x is in the range of server i exactly when server_for_hash(x, n)
\* is i, and the ranges of servers 0 .. n-1 are adjacent, start at 0 and end
\* at the largest hash
HashRangesPartition(x, n) ==
    /\ \A i \in 0 .. (n - 1) :
          /\ Cardinality(range_for_server(i, n)) = 1
          /\ \A r \in range_for_server(i, n) :
                /\ ~r.panic
                /\ r.start <= r.end
                /\ (server_for_hash(x, n) = i) <=> (r.start <= x /\ x <= r.end)
                /\ i = 0 => r.start = 0
                /\ i = n - 1 => r.end = U64_MAX
                /\ i < n - 1 =>
                      \A r2 \in range_for_server(i + 1, n) :
                          ~r2.panic /\ r.end + 1 = r2.start
    /\ ctx.server.some => ctx.server.value = server_for_hash(x, n)
    /\ ctx.range.some =>
          /\ ~ctx.range.panic
          /\ ctx.range.of = ctx.server.value
                => (ctx.range.start <= x /\ x <= ctx.range.end)

\* C36 as stated: for every n >= 1 and every hash x, server_for_hash(x, n) = i
\* exactly when x is in range_for_server(i, n), and the ranges of the servers
\* are adjacent, disjoint and cover 0 .. max.
C36_RangesPartitionForEveryN ==
    "x" \in DOMAIN ctx => HashRangesPartition(ctx.x, ctx.n)

\* C36: the same for every n >= 1 whose square is at most max + 1 (n <= 2^32
\* for a 64-bit hash).
C36_RangesPartitionForSmallN ==
    ("x" \in DOMAIN ctx /\ ctx.n * ctx.n <= U64_MAX + 1)
        => HashRangesPartition(ctx.x, ctx.n)

\* The largest hash was routed among the largest supported number of servers,
\* to the last one, whose range was computed
C36_LargestHashRouted ==
    /\ "x" \in DOMAIN ctx
    /\ ctx.x = U64_MAX
    /\ ctx.n > 2
    /\ (ctx.n + 1) * (ctx.n + 1) > U64_MAX + 1
    /\ ctx.n * ctx.n <= U64_MAX + 1
    /\ ctx.server = [some |-> TRUE, value |-> ctx.n - 1]
    /\ ctx.range.some
    /\ ctx.range.end = U64_MAX

\* C37: a finish_checkpoint_if_done that returns an error (metadata write,
\* store update, compaction or commit call failed) leaves the coordination
\* state of the current epoch in place: it is not None after the failed call.
C37_FailedFinishKeepsState ==
    checkpoint_state.kind # "None" =>
        \A f \in FailPointsNow :
            LET r == finish_checkpoint_if_done(Ctl, [fail |-> f, jf_fail |-> {}])
            IN  r.ret = "Err" =>
                   /\ r.checkpoint_state.kind # "None"
                   /\ r.checkpoint_state.epoch = epoch

\* C38: as long as the job is in Running, progress() is called again and
\* again, whatever the arrivals of inbound messages are.
C38_ProgressInfinitelyOften ==
    ([]<>(ctx.next # StillRunning)) \/ ([]<><<SelectTick>>_vars)

\* C39 as stated: for a controller created with epoch - min_epoch <= 6,
\* epoch - min_epoch <= 6 in every reachable state.
C39_BacklogAtMostSix == epoch - min_epoch <= MaxBacklog

\* The second half of the statement read on the state in which progress() is
\* called: no checkpoint is started from a state in which cleanup_needed() is
\* Some.
C39_NoStartWhenCleanupNeeded ==
    [][epoch' > epoch => ~cleanup_needed(Ctl).some]_vars

\* The backlog is at most 6 epochs, and at most 5 at an odd epoch
BacklogBounded ==
    /\ epoch - min_epoch <= MaxBacklog
    /\ epoch % COMPACT_EVERY # 0 => epoch - min_epoch < MaxBacklog

\* C39: a backlog of at most 6 epochs, and of at most 5 at an odd epoch, stays
\* so in every step, whether the cleanup tasks succeed or fail; progress()
\* starts a checkpoint only when, once an ended cleanup task is reaped,
\* cleanup_needed() is None.
C39_BacklogStaysBounded ==
    [][/\ BacklogBounded => BacklogBounded'
       /\ epoch' > epoch => ~cleanup_needed(reap_cleanup(Ctl)).some]_vars

\* A backlog of 6 epochs at which a cleanup task has failed
C39_FullBacklogCleanupFailed ==
    /\ BacklogBounded
    /\ epoch - min_epoch = MaxBacklog
    /\ cleanup_task.status \in {"err", "panic"}
    /\ checkpoint_reqs # <<>>

\* C40: between two operations of the controller the coordination state and
\* the row of the current epoch agree: in Checkpointing the row exists and is
\* inprogress, in Committing it exists and is committing, and a row of the
\* current epoch that is inprogress or committing has its coordination state.
C40_StateAgreesWithRow ==
    LET rows == {i \in DOMAIN db : db[i].epoch = as_i32(epoch)}
    IN  /\ checkpoint_state.kind = "Checkpointing"
              => \E i \in rows : db[i].state = "inprogress"
        /\ checkpoint_state.kind = "Committing"
              => \E i \in rows : db[i].state = "committing"
        /\ \A i \in rows :
              /\ db[i].state = "inprogress"
                    => checkpoint_state.kind = "Checkpointing"
              /\ db[i].state = "committing"
                    => checkpoint_state.kind = "Committing"

====
